---- MODULE Spec2Model ----
(***************************************************************************)
(* Organic tree supports: src/libslic3r/Support/OrganicSupport.cpp.        *)
(*                                                                         *)
(* The model follows organic_draw_branches: linearisation of the forest,   *)
(* organic_smooth_branches_avoid_collisions (the sphere solver), the       *)
(* branch extractor (TreeVisitor::visit_recursive and the loop that starts *)
(* the trees), slicing and merging of the branches, per layer              *)
(* finalisation.  The cancellation probe throw_on_cancel is an environment *)
(* flag that may be raised between any two steps.                          *)
(*                                                                         *)
(* Numbers.  The solver works on float/double millimetres.  The model uses *)
(* fixed point integers: one solver unit is 1/UnitsPerMM mm, which is the  *)
(* value of EPSILON (1e-4 mm).  Scaled coordinates (coord_t) are           *)
(* ScaledPerUnit times finer, so unscaled<float>() loses the low digits of *)
(* a coord_t, as a float does for coordinates beyond 2^24 scaled units.    *)
(* Layers, elements and parents are indexed from 0 as in the source.       *)
(***************************************************************************)
EXTENDS Integers, Sequences, FiniteSets, TLC

\* ---------------------------------------------------------------- bounds
MaxLayers == 3
MaxElems  == 3
MaxChain  == 3

\* ---------------------------------------------------- units and constants
UnitsPerMM    == 10000
ScaledPerUnit == 100

EPSILON                       == 1
collision_extra_gap           == UnitsPerMM \div 10
max_nudge_collision_avoidance == UnitsPerMM \div 2
max_nudge_smoothing           == UnitsPerMM \div 5
num_iter                      == 100
\* smoothing_factor = 0.5 = 1 / smoothing_factor_inv
smoothing_factor_inv          == 2

\* slicing_params.layer_height and the radius getRadius() returns, in solver units
layer_height  == UnitsPerMM \div 5
ElemRadius    == UnitsPerMM

\* ------------------------------------------------------------ arithmetic
Abs(a)    == IF a < 0 THEN -a ELSE a
Min(a, b) == IF a < b THEN a ELSE b
Max(a, b) == IF a > b THEN a ELSE b
sqr(a)    == a * a

\* Division rounding toward zero (b > 0), as a cast of a quotient does.
DivT(a, b) == IF a >= 0 THEN a \div b ELSE -((-a) \div b)
\* Division rounding to the nearest (b > 0).
DivR(a, b) == IF a >= 0 THEN (a + b \div 2) \div b ELSE -((-a + b \div 2) \div b)
CeilDiv(a, b)  == -((-a) \div b)
FloorDiv(a, b) == a \div b

RECURSIVE SqrtIter(_, _)
SqrtIter(n, x) ==
    LET y == (x + n \div x) \div 2
    IN  IF y >= x THEN x ELSE SqrtIter(n, y)

\* floor of the square root
sqrt(n) == IF n <= 0 THEN 0 ELSE SqrtIter(n, n)

VAdd(a, b) == <<a[1] + b[1], a[2] + b[2]>>
VSub(a, b) == <<a[1] - b[1], a[2] - b[2]>>
Dot(a, b)  == a[1] * b[1] + a[2] * b[2]
norm(v)    == sqrt(Dot(v, v))

\* v.normalized() * d ; Eigen's normalized() returns a zero vector unchanged.
NormalizedTimes(v, d) ==
    LET n == norm(v)
    IN  IF n = 0 THEN <<0, 0>> ELSE <<DivT(v[1] * d, n), DivT(v[2] * d, n)>>

\* unscaled<float>(coord_t) and scaled<coord_t>(float), per coordinate
unscaled(c) == DivR(c, ScaledPerUnit)
scaled(p)   == p * ScaledPerUnit
unscaled2(c) == <<unscaled(c[1]), unscaled(c[2])>>
scaled2(p)   == <<scaled(p[1]), scaled(p[2])>>

\* -------------------------------------------------------------- 0-based
Size(f)  == Cardinality(DOMAIN f)
Ids(f)   == 0 .. (Size(f) - 1)
Range(s) == {s[i] : i \in DOMAIN s}

RECURSIVE SumTo(_, _)
SumTo(f, n) == IF n = 0 THEN 0 ELSE f[n - 1] + SumTo(f, n - 1)

\* ------------------------------------------------------------ the inputs
\* A SupportElement: the fields of SupportElement / SupportElementState read here.
SupportElement(par, pos, l, flags) ==
    [ parents                |-> par,
      layer_idx              |-> l,
      result_on_layer        |-> pos,
      result_on_layer_is_set |-> TRUE,
      radius                 |-> ElemRadius,
      lost                   |-> flags[1],
      verylost               |-> flags[2],
      to_model_gracious      |-> flags[3],
      marked                 |-> TRUE ]

\* Injective sequences over a set: the parents vector lists each parent once.
Perms(S) == {p \in [1 .. Cardinality(S) -> S] : \A i, j \in 1 .. Cardinality(S) : i # j => p[i] # p[j]}
InjSeqs(S) == UNION {Perms(T) : T \in SUBSET S}

\* The parents of the a elements of a layer below b elements: every element
\* above has at most one child (the invariant line 615 asserts).
ParentChoices(a, b) ==
    {par \in [0 .. a - 1 -> InjSeqs(0 .. b - 1)] :
        \A e1, e2 \in 0 .. a - 1 : e1 # e2 => Range(par[e1]) \cap Range(par[e2]) = {}}

RECURSIVE TopoFrom(_, _, _)
TopoFrom(l, nl, sz) ==
    IF l = nl THEN {<<>>}
    ELSE LET b == IF l + 1 < nl THEN sz[l + 1] ELSE 0
         IN  {[k \in l .. nl - 1 |-> IF k = l THEN par ELSE rest[k]] :
                 par \in ParentChoices(sz[l], b), rest \in TopoFrom(l + 1, nl, sz)}

LayerSizes(nl) == {sz \in [0 .. nl - 1 -> 0 .. MaxElems] : SumTo(sz, nl) <= MaxElems}

\* All layered forests of at most MaxLayers layers and MaxElems elements:
\* a topology maps layer -> element -> parents.
Topologies == UNION {UNION {TopoFrom(0, nl, sz) : sz \in LayerSizes(nl)} : nl \in 0 .. MaxLayers}

\* A chain: one element per layer, each the only parent of the one below.
ChainTopo(n) == [l \in 0 .. n - 1 |-> [i \in {0} |-> IF l < n - 1 THEN <<0>> ELSE <<>>]]

ElemIds(tp) == UNION {{<<l, i>> : i \in DOMAIN tp[l]} : l \in DOMAIN tp}
HasChild(tp, l, i) == l > 0 /\ \E c \in DOMAIN tp[l - 1] : i \in Range(tp[l - 1][c])
\* lost, verylost and to_model_gracious are read on the elements that start a tree only.
StartCands(tp) == {e \in ElemIds(tp) : tp[e[1]][e[2]] # <<>> /\ ~HasChild(tp, e[1], e[2])}
NoFlags == <<FALSE, FALSE, FALSE>>
FlagChoices(tp, flags) ==
    {fl \in [ElemIds(tp) -> flags] : \A e \in ElemIds(tp) \ StartCands(tp) : fl[e] = NoFlags}
LostFlags == BOOLEAN \X BOOLEAN \X {FALSE}
AllFlags  == BOOLEAN \X BOOLEAN \X BOOLEAN

Forest(tp, pos, fl) ==
    [l \in DOMAIN tp |-> [i \in DOMAIN tp[l] |-> SupportElement(tp[l][i], pos[<<l, i>>], l, fl[<<l, i>>])]]

\* result_on_layer values (scaled): near the origin, and 0.3 mm / -0.9 mm off it.
PosA == <<130, -270>>
PosB == <<300030, -900040>>
PosSet == {PosA, PosB}

\* Collision outlines (solver units): one horizontal segment on one layer.
LineHalfLen == (3 * UnitsPerMM) \div 2
HLine(y)    == <<<<-LineHalfLen, y>>, <<LineHalfLen, y>>>>
ShallowLine == HLine(ElemRadius - UnitsPerMM \div 200)
DeepLine    == HLine(UnitsPerMM \div 5)
NoLines(nl) == [l \in 0 .. nl - 1 |-> {}]
OneLine(nl, lc, seg) == [l \in 0 .. nl - 1 |-> IF l = lc THEN {seg} ELSE {}]
LineChoices(nl, segs) == {NoLines(nl)} \cup {OneLine(nl, lc, seg) : lc \in 0 .. nl - 1, seg \in segs}

\* Every forest, all elements at PosA: without a line, the start elements
\* lost, verylost, both or neither; or under a shallow line, no element flagged.
InputsA ==
    UNION {{[move_bounds |-> Forest(tp, [e \in ElemIds(tp) |-> PosA], fl), lines |-> NoLines(Size(tp)),
             top_contacts |-> <<>>] : fl \in FlagChoices(tp, LostFlags)}
           \cup {[move_bounds |-> Forest(tp, [e \in ElemIds(tp) |-> PosA], [e \in ElemIds(tp) |-> NoFlags]),
                  lines |-> ln, top_contacts |-> <<>>] : ln \in LineChoices(Size(tp), {ShallowLine})} :
           tp \in Topologies}
\* Chains, every placement of the elements, no line, a shallow or a deep one.
InputsB ==
    UNION {{[move_bounds |-> Forest(ChainTopo(n), pos, [e \in ElemIds(ChainTopo(n)) |-> NoFlags]), lines |-> ln, top_contacts |-> <<>>] :
               pos \in [ElemIds(ChainTopo(n)) -> PosSet], ln \in LineChoices(n, {ShallowLine, DeepLine})} :
           n \in 2 .. MaxChain}
\* Forks: a stem under two tips, a root under a fork and a tip, two trees;
\* every choice of lost, verylost and to_model_gracious on the start elements.
StemFork == [l \in 0 .. 2 |-> IF l = 0 THEN [i \in {0} |-> <<0>>]
                              ELSE IF l = 1 THEN [i \in {0} |-> <<0, 1>>]
                              ELSE [i \in {0, 1} |-> <<>>]]
RootFork == [l \in 0 .. 2 |-> IF l = 0 THEN [i \in {0} |-> <<0, 1>>]
                              ELSE IF l = 1 THEN [i \in {0, 1} |-> IF i = 0 THEN <<0, 1>> ELSE <<>>]
                              ELSE [i \in {0, 1} |-> <<>>]]
TwoTrees == [l \in 0 .. 1 |-> IF l = 0 THEN [i \in {0, 1} |-> <<i>>] ELSE [i \in {0, 1} |-> <<>>]]
InputsC ==
    UNION {{[move_bounds |-> Forest(tp, [e \in ElemIds(tp) |-> PosA], fl), lines |-> NoLines(Size(tp)), top_contacts |-> <<>>] :
               fl \in FlagChoices(tp, AllFlags)} : tp \in {StemFork, RootFork, TwoTrees}}
\* Two elements at the origin, the lower the child of the upper, under an
\* outline from (-2, 0.2) mm to (2, 0.2) mm on layer 1.
OriginChain ==
    Forest(ChainTopo(2), [e \in ElemIds(ChainTopo(2)) |-> <<0, 0>>], [e \in ElemIds(ChainTopo(2)) |-> NoFlags])
OriginLine == <<<<-(2 * UnitsPerMM), UnitsPerMM \div 5>>, <<2 * UnitsPerMM, UnitsPerMM \div 5>>>>
InputsD == {[move_bounds |-> OriginChain, lines |-> OneLine(2, 1, OriginLine), top_contacts |-> <<>>]}
\* The forks again, every tree kept (lost), resting on the model graciously
\* or not, under top contacts: a contact layer on one layer that covers the
\* first element of that layer, or a contact layer without polygons on every layer.
KeptFlags == {<<TRUE, FALSE, FALSE>>, <<TRUE, FALSE, TRUE>>}
TopContacts(nl) ==
    {[l \in 0 .. nl - 1 |-> IF l = lt THEN <<[polygons |-> {<<l, 0>>}]>> ELSE <<>>] : lt \in 0 .. nl - 1}
        \cup {[l \in 0 .. nl - 1 |-> <<[polygons |-> {}]>>]}
InputsE ==
    UNION {{[move_bounds |-> Forest(tp, [e \in ElemIds(tp) |-> PosA], fl), lines |-> NoLines(Size(tp)),
             top_contacts |-> tops] :
               fl \in {f \in FlagChoices(tp, KeptFlags \cup {NoFlags}) : \A e \in StartCands(tp) : f[e] \in KeptFlags},
               tops \in TopContacts(Size(tp))} : tp \in {StemFork, RootFork, TwoTrees}}
Inputs == InputsA \cup InputsB \cup InputsC \cup InputsD \cup InputsE

\* ------------------------------------------------------------- the state
VARIABLES
    move_bounds,              \* std::vector<SupportElements>: layer -> element
    move_bounds_in,           \* history: move_bounds as passed in
    lines,                    \* volumes: collision outline of each layer
    top_contacts,             \* layer -> <<top contact layer>> or <<>> (nullptr); <<>> is the empty vector
    collision,                \* volumes: layer -> the cells getCollision(0, layer, false) covers
    placeable_areas,          \* volumes: layer -> the cells getPlaceableAreas(0, layer) covers; everything where not given
    pc,                       \* position in organic_draw_branches
    cancel,                   \* throw_on_cancel raises from now on
    cancel_when,              \* history: where the probe started to raise
    raised_at,                \* history: the step whose probe call raised
    probes,                   \* history: probe site -> calls (line 454: of the current pass)
    elements_with_link_down,  \* linear index -> (element, child link)
    linear_data_layers,       \* layer -> first linear index
    layer_collision_cache,    \* layer -> lines
    cache_layer,              \* layer_idx of the loop of line 295
    collision_spheres,        \* linear index -> CollisionSphere
    position0,                \* history: the spheres' positions at initialisation
    iter,                     \* solver passes completed
    num_moved,                \* std::atomic<size_t> num_moved of the pass
    pending,                  \* spheres the parallel_for has not processed yet
    volumes_cleared,          \* volumes.clear_all_but_object_collision() was called
    cursor,                   \* the start element the loop of line 725 is at
    trees,                    \* std::vector<Tree>
    visited,                  \* history: the trees visit_recursive built, kept or not
    branch_cursor,            \* tree -> the branch its worker slices next
    tree_pending,             \* trees the union parallel_for has not processed yet
    slices,                   \* layer -> Slice, all trees merged
    layer_pending,            \* layers the last parallel_for has not processed yet
    intermediate_layers,      \* layer -> index into layer_storage, -1 for nullptr
    bottom_contacts,          \* layer -> index into layer_storage, -1 for nullptr
    layer_storage,            \* the layers layer_allocate created
    root_in,                  \* a rooted branch on its own: front element, layer_begin, front slice
    extra_slices,             \* its bottom_extra_slices
    mesh_in,                  \* a path on its own: its size and what discretisation its radii give
    ipath,                    \* ipath of the loop of line 180
    its,                      \* indexed_triangle_set: [nv, indices], nv = vertices.size()
    prev_strip,               \* prev_strip of extrude_branch: <<begin, end>>
    rings,                    \* history: the ranges discretize_circle returned
    strip_walk,               \* triangulate_strip on its own: its arguments and u, v, n1, n2
    strip_calls,              \* history: the first ring of every triangulate_strip call of extrude_branch
    merged,                   \* the merge on its own: the branches merged, each with the indices it was merged at
    map_downwards_old,        \* the linearisation on its own: map_downwards_old of line 597
    lin_layer_idx,            \* layer_idx of the loop of line 600
    volumes_log               \* history: calls of clear_all_but_object_collision, queries made on volumes

inVars      == <<move_bounds_in, lines, top_contacts, collision, placeable_areas>>
cancelVars  == <<cancel, cancel_when>>
linVars     == <<elements_with_link_down, linear_data_layers>>
solverVars  == <<layer_collision_cache, cache_layer, collision_spheres, position0, iter, num_moved, pending>>
extractVars == <<volumes_cleared, cursor, trees, visited>>
sliceVars   == <<branch_cursor, tree_pending, slices, layer_pending>>
outVars     == <<intermediate_layers, bottom_contacts, layer_storage>>
rootVars    == <<root_in, extra_slices>>
meshVars    == <<mesh_in, ipath, its, prev_strip, rings, strip_walk>>
auxVars     == <<map_downwards_old, lin_layer_idx, volumes_log, strip_calls, merged>>

vars == <<move_bounds, pc, raised_at, probes, inVars, cancelVars, linVars, solverVars, extractVars, sliceVars, outVars, rootVars, meshVars, auxVars>>

\* -------------------------------------------- layers (TreeSupportCommon.hpp)
layer_z(l)         == (l + 1) * layer_height
layer_idx_ceil(z)  == CeilDiv(z - layer_height, layer_height)
layer_idx_floor(z) == FloorDiv(z - layer_height, layer_height)

\* ---------------------------------------------------------- linearisation
\* map_downwards_new of layer l: (parent in layer l + 1, element of layer l).
MapDownwards(mb, l) ==
    IF l + 1 < Size(mb)
    THEN {m \in Ids(mb[l + 1]) \X Ids(mb[l]) :
             /\ m[1] \in Range(mb[l][m[2]].parents)
             /\ mb[l + 1][m[1]].result_on_layer_is_set}
    ELSE {}

\* The child link of element i of layer l: the lower_bound in map_downwards_old.
ChildLink(mb, l, i) ==
    IF l = 0 THEN -1
    ELSE LET found == {m \in MapDownwards(mb, l - 1) : m[1] = i}
         IN  IF found = {} THEN -1
             ELSE (CHOOSE m \in found : \A m2 \in found : m[2] <= m2[2])[2]

LinearDataLayers(mb) == [k \in 0 .. Size(mb) |-> SumTo([l \in Ids(mb) |-> Size(mb[l])], k)]

ElementsWithLinkDown(mb) ==
    LET ldl == LinearDataLayers(mb)
    IN  [n \in 0 .. ldl[Size(mb)] - 1 |->
            LET l == CHOOSE k \in Ids(mb) : ldl[k] <= n /\ n < ldl[k + 1]
            IN  [layer |-> l, idx |-> n - ldl[l], child |-> ChildLink(mb, l, n - ldl[l])]]

\* The SupportElement a linear node points to.
ElementOf(mb, node) == mb[node.layer][node.idx]

\* ------------------------------------------------------------ the solver
\* -std::numeric_limits<double>::max()
lowest_depth == -(UnitsPerMM * UnitsPerMM)

\* lines 282-310: a cache entry for every layer up to the topmost element;
\* the layers that hold elements get the outline of the layer.
LayerCollisionCache(ewl, lns) ==
    LET used == {ewl[n].layer : n \in DOMAIN ewl}
        nc   == IF used = {} THEN 0 ELSE (CHOOSE l \in used : \A k \in used : k <= l) + 1
    IN  [l \in 0 .. nc - 1 |-> IF l \in used THEN lns[l] ELSE {}]

\* Variant of line 343 that locks every element without a child, the roots on
\* layer 0 included.
IsLockedRoots(element, link_down) == element.parents = <<>> \/ link_down = -1

\* Variant of line 343 that locks the tips only.
IsLockedTipsOnly(element, link_down) == element.parents = <<>>

\* line 343
IsLocked(element, link_down) ==
    element.parents = <<>> \/ (link_down = -1 /\ element.layer_idx > 0)

\* lines 350-354: min_z of the tree below
RECURSIVE TreeMinZ(_, _, _)
TreeMinZ(ewl, ldl, n) ==
    IF ewl[n].child # -1
    THEN TreeMinZ(ewl, ldl, ldl[ewl[n].layer - 1] + ewl[n].child)
    ELSE layer_z(ewl[n].layer)

SetMin(S) == CHOOSE x \in S : \A y \in S : x <= y

\* lines 357-371: max_z from the tips of the branches
RECURSIVE TipMaxZ(_, _, _, _)
TipMaxZ(mb, ewl, ldl, n) ==
    LET parents == ElementOf(mb, ewl[n]).parents
    IN  IF parents = <<>> THEN layer_z(ewl[n].layer)
        ELSE SetMin({TipMaxZ(mb, ewl, ldl, ldl[ewl[n].layer + 1] + parents[k]) : k \in DOMAIN parents})

\* Variant of line 379 whose window ends at the topmost layer itself.
SphereLayerEndInclusive(num_cache_layers, layer_idx, max_z) ==
    Min(num_cache_layers, Max(layer_idx, layer_idx_floor(max_z)))

\* line 379: one past the topmost layer of the window
SphereLayerEnd(num_cache_layers, layer_idx, max_z) ==
    Min(num_cache_layers, Max(layer_idx, layer_idx_floor(max_z)) + 1)

\* lines 339-347, 373-380: one CollisionSphere
CollisionSphere(mb, ewl, ldl, num_cache_layers, n) ==
    LET element == ElementOf(mb, ewl[n])
        z       == layer_z(element.layer_idx)
        min_z   == Max(TreeMinZ(ewl, ldl, n), z - element.radius)
        max_z   == Min(TipMaxZ(mb, ewl, ldl, n), z + element.radius)
    IN  [ layer                |-> ewl[n].layer,
          idx                  |-> ewl[n].idx,
          element_below_id     |-> ewl[n].child,
          locked               |-> IsLocked(element, ewl[n].child),
          radius               |-> element.radius,
          position             |-> unscaled2(element.result_on_layer),
          z                    |-> z,
          prev_position        |-> <<0, 0>>,
          last_collision       |-> <<0, 0, 0>>,
          last_collision_depth |-> 0,
          min_z                |-> min_z,
          max_z                |-> max_z,
          layer_begin          |-> Min(element.layer_idx, layer_idx_ceil(min_z)),
          layer_end            |-> SphereLayerEnd(num_cache_layers, element.layer_idx, max_z) ]

\* lines 390-391
BackUpPositions(cs) == [n \in DOMAIN cs |-> [cs[n] EXCEPT !.prev_position = cs[n].position]]

\* line 396: the spheres a worker does anything for
Unlocked(cs) == {n \in DOMAIN cs : ~cs[n].locked}

\* AABBTreeLines::squared_distance_to_indexed_lines: the nearest point of the
\* segments within max_sq; the outlines of the model are axis parallel.
ClosestOnSegment(seg, p) ==
    LET a == seg[1]
        b == seg[2]
    IN  IF a[2] = b[2]
        THEN <<Max(Min(a[1], b[1]), Min(p[1], Max(a[1], b[1]))), a[2]>>
        ELSE <<a[1], Max(Min(a[2], b[2]), Min(p[2], Max(a[2], b[2])))>>

squared_distance_to_indexed_lines(lns, p, max_sq) ==
    LET d2(seg) == Dot(VSub(p, ClosestOnSegment(seg, p)), VSub(p, ClosestOnSegment(seg, p)))
        near    == {seg \in lns : d2(seg) < max_sq}
    IN  IF near = {} THEN [hit |-> FALSE]
        ELSE LET seg == CHOOSE sg \in near : \A s2 \in near : d2(sg) <= d2(s2)
             IN  [hit |-> TRUE, d2 |-> d2(seg), pt |-> ClosestOnSegment(seg, p)]

\* lines 398-416: the deepest collision over the layers of the sphere's window
RECURSIVE ScanLayers(_, _, _, _)
ScanLayers(s, cache, layer_id, acc) ==
    IF layer_id = s.layer_end THEN acc
    ELSE LET dz    == (layer_id - s.layer) * layer_height
             r2    == sqr(s.radius) - sqr(dz)
             q     == IF r2 > 0 /\ cache[layer_id] # {}
                      THEN squared_distance_to_indexed_lines(cache[layer_id], s.position, r2)
                      ELSE [hit |-> FALSE]
             depth == sqrt(r2) - sqrt(q.d2)
         IN  ScanLayers(s, cache, layer_id + 1,
                 IF q.hit /\ depth > acc.depth
                 THEN [depth |-> depth, coll |-> <<q.pt[1], q.pt[2], layer_z(layer_id)>>]
                 ELSE acc)

\* lines 417-427: the position nudged away from the collision
Nudged(position, coll, depth) ==
    IF depth > 0
    THEN LET nudge_dist   == Min(Max(0, depth + collision_extra_gap), max_nudge_collision_avoidance)
             nudge_vector == NormalizedTimes(VSub(position, <<coll[1], coll[2]>>), nudge_dist)
         IN  VAdd(position, <<DivT(nudge_vector[1] * nudge_dist, UnitsPerMM),
                              DivT(nudge_vector[2] * nudge_dist, UnitsPerMM)>>)
    ELSE position

\* Variant of lines 435, 441 that reads the position another worker may have written.
NeighbourPositionCurrent(other) == other.position

\* line 435, 441: what the smoothing reads of another sphere
NeighbourPosition(other) == other.prev_position

RECURSIVE SumParents(_, _, _, _, _)
SumParents(cs, offset_above, parents, w, k) ==
    IF k = 0 THEN <<0, 0>>
    ELSE LET q == NeighbourPosition(cs[offset_above + parents[k]])
         IN  VAdd(SumParents(cs, offset_above, parents, w, k - 1), <<w * q[1], w * q[2]>>)

\* lines 429-452: Laplacian smoothing of sphere n, from position old_pos
Smoothed(cs, mb, ldl, n, old_pos) ==
    LET s       == cs[n]
        parents == mb[s.layer][s.idx].parents
        w       == s.radius
        above   == SumParents(cs, ldl[s.layer + 1], parents, w, Len(parents))
        wabove  == w * Len(parents)
        below   == IF s.element_below_id # -1
                   THEN NeighbourPosition(cs[ldl[s.layer - 1] + s.element_below_id])
                   ELSE <<0, 0>>
        sum     == IF s.element_below_id # -1
                   THEN VAdd(above, <<wabove * below[1], wabove * below[2]>>)
                   ELSE above
        weight  == IF s.element_below_id # -1 THEN wabove + wabove ELSE wabove
        avg     == <<DivT(sum[1], weight), DivT(sum[2], weight)>>
        new_pos == <<DivT(old_pos[1] + avg[1], smoothing_factor_inv),
                     DivT(old_pos[2] + avg[2], smoothing_factor_inv)>>
        shift   == VSub(new_pos, old_pos)
        nudge_dist == Min(Max(0, norm(shift)), max_nudge_smoothing)
    IN  VAdd(old_pos, NormalizedTimes(shift, nudge_dist))

\* lines 396-453: what the worker does for sphere n
SphereStep(cs, mb, ldl, cache, n) ==
    LET s    == cs[n]
        scan == ScanLayers(s, cache, s.layer_begin, [depth |-> lowest_depth, coll |-> s.last_collision])
    IN  [s EXCEPT !.last_collision_depth = scan.depth,
                  !.last_collision       = scan.coll,
                  !.position             = Smoothed(cs, mb, ldl, n, Nudged(s.position, scan.coll, scan.depth))]

\* Variant of lines 469-470 that skips the locked spheres.
WriteBackUnlocked(mb, ewl, cs) ==
    [l \in DOMAIN mb |-> [e \in DOMAIN mb[l] |->
        LET n == CHOOSE k \in DOMAIN ewl : ewl[k].layer = l /\ ewl[k].idx = e
        IN  IF cs[n].locked THEN mb[l][e]
            ELSE [mb[l][e] EXCEPT !.result_on_layer = scaled2(cs[n].position)]]]

\* lines 469-470
WriteBack(mb, ewl, cs) ==
    [l \in DOMAIN mb |-> [e \in DOMAIN mb[l] |->
        LET n == CHOOSE k \in DOMAIN ewl : ewl[k].layer = l /\ ewl[k].idx = e
        IN  [mb[l][e] EXCEPT !.result_on_layer = scaled2(cs[n].position)]]]

\* ---------------------------------------------------- the branch extractor
\* A SupportElement* is the pair <<layer, index in the layer>>.
Deref(mb, e) == mb[e[1]][e[2]]

\* Variant of lines 676, 691, 705 that sets no mark.
MarkNone(mb, e) == mb

\* lines 676, 691, 705: state.marked = true
Mark(mb, e)  == [mb EXCEPT ![e[1]][e[2]].marked = TRUE]

\* lines 694-710: follow the chain of single parents above `parent`, up to a
\* tip (marked, no next branch) or a branching point (left unmarked).
RECURSIVE WalkUp(_, _, _)
WalkUp(mb, path, parent) ==
    LET next_parent == <<Deref(mb, parent).layer_idx + 1, Deref(mb, parent).parents[1]>>
        grown       == Append(path, next_parent)
        n           == Len(Deref(mb, next_parent).parents)
    IN  IF n > 1 THEN [mb |-> mb, path |-> grown, next_branch |-> <<next_parent>>]
        ELSE IF n = 0 THEN [mb |-> Mark(mb, next_parent), path |-> grown, next_branch |-> <<>>]
        ELSE WalkUp(Mark(mb, next_parent), grown, next_parent)

\* Variant of lines 683-713 without line 689: first_parent is not put on the path.
BranchFromNoFirst(mb, start_element, k) ==
    LET first_parent == <<Deref(mb, start_element).layer_idx + 1, Deref(mb, start_element).parents[k]>>
        n            == Len(Deref(mb, first_parent).parents)
        mb1          == IF n < 2 THEN Mark(mb, first_parent) ELSE mb
        path         == <<start_element>>
    IN  IF n = 1 THEN WalkUp(mb1, path, first_parent)
        ELSE IF n > 1 THEN [mb |-> mb1, path |-> path, next_branch |-> <<first_parent>>]
        ELSE [mb |-> mb1, path |-> path, next_branch |-> <<>>]

\* Variant of lines 690-713 that follows parents.front() of a first_parent
\* with several parents, as if it had one.
BranchFromThroughFork(mb, start_element, k) ==
    LET first_parent == <<Deref(mb, start_element).layer_idx + 1, Deref(mb, start_element).parents[k]>>
        n            == Len(Deref(mb, first_parent).parents)
        mb1          == Mark(mb, first_parent)
        path         == <<start_element, first_parent>>
    IN  IF n >= 1 THEN WalkUp(mb1, path, first_parent)
        ELSE [mb |-> mb1, path |-> path, next_branch |-> <<>>]

\* Variant of lines 711-713 that leaves next_branch at nullptr when
\* first_parent is a branching point.
BranchFromNoNextBranch(mb, start_element, k) ==
    LET first_parent == <<Deref(mb, start_element).layer_idx + 1, Deref(mb, start_element).parents[k]>>
        n            == Len(Deref(mb, first_parent).parents)
        mb1          == IF n < 2 THEN Mark(mb, first_parent) ELSE mb
        path         == <<start_element, first_parent>>
    IN  IF n = 1 THEN WalkUp(mb1, path, first_parent)
        ELSE [mb |-> mb1, path |-> path, next_branch |-> <<>>]

\* lines 683-713: the branch through parent number k of start_element.
\* next_branch is <<>> (nullptr) or <<element>>.
BranchFrom(mb, start_element, k) ==
    LET first_parent == <<Deref(mb, start_element).layer_idx + 1, Deref(mb, start_element).parents[k]>>
        n            == Len(Deref(mb, first_parent).parents)
        mb1          == IF n < 2 THEN Mark(mb, first_parent) ELSE mb
        path         == <<start_element, first_parent>>
    IN  IF n = 1 THEN WalkUp(mb1, path, first_parent)
        ELSE IF n > 1 THEN [mb |-> mb1, path |-> path, next_branch |-> <<first_parent>>]
        ELSE [mb |-> mb1, path |-> path, next_branch |-> <<>>]

\* Variant of lines 681, 716 that reads out.branches.empty() for every branch.
HasRootFirstOnly(branches_at_entry, branches_now) == branches_now = <<>>

\* lines 681, 716: has_root of a branch is `root`, which is out.branches.empty()
\* as read once, before the loop over the parents of start_element.
HasRoot(branches_at_entry, branches_now) == branches_at_entry = <<>>

\* lines 674-722: st = [mb, branches], the forest with its marks and out.branches
RECURSIVE visit_recursive(_, _)
RECURSIVE VisitParents(_, _, _, _)
VisitParents(st, start_element, at_entry, k) ==
    IF k > Len(Deref(st.mb, start_element).parents) THEN st
    ELSE LET b      == BranchFrom(st.mb, start_element, k)
             branch == [path |-> b.path, has_root |-> HasRoot(at_entry, st.branches), has_tip |-> b.next_branch = <<>>]
             st1    == [mb |-> b.mb, branches |-> Append(st.branches, branch)]
             st2    == IF b.next_branch # <<>> THEN visit_recursive(st1, b.next_branch[1]) ELSE st1
         IN  VisitParents(st2, start_element, at_entry, k + 1)

visit_recursive(st, start_element) ==
    VisitParents([st EXCEPT !.mb = Mark(st.mb, start_element)], start_element, st.branches, 1)

\* Variant of lines 746-750 that pops the verylost trees too.
KeepTreeLostOnly(start) == start.lost

\* lines 746-750: the tree stays in `trees`
KeepTree(start) == start.lost \/ start.verylost

\* lines 725-727: the elements the loop visits, in its order
StartOrder(mb) ==
    {e \in UNION {{<<l, i>> : i \in DOMAIN mb[l]} : l \in DOMAIN mb} : e[1] + 1 < Size(mb)}
Before(a, b) == a[1] < b[1] \/ (a[1] = b[1] /\ a[2] < b[2])
FirstFrom(S) == IF S = {} THEN <<>> ELSE <<CHOOSE a \in S : \A b \in S \ {a} : Before(a, b)>>
\* The loop's position: <<element>>, or <<>> at the end.
FirstStart(mb)   == FirstFrom(StartOrder(mb))
NextStart(mb, e) == FirstFrom({b \in StartOrder(mb) : Before(e, b)})

\* lines 645-647
Unmarked(mb) == [l \in DOMAIN mb |-> [i \in DOMAIN mb[l] |-> [mb[l][i] EXCEPT !.marked = FALSE]]]

\* ------------------------------------------------- slicing the branches
\* Polygons are sets of cells; a cell is the SupportElement* whose cross
\* section of the tube it is.  Every area is placeable and the object
\* collision with min_xy_dist is empty; the collision without it is what
\* `collision` says, nothing on a layer it does not list.
diff_collision(polygons, layer_idx, min_xy_dist) ==
    IF ~min_xy_dist /\ layer_idx \in DOMAIN collision THEN polygons \ collision[layer_idx] ELSE polygons
intersection_placeable(polygons, layer_idx) ==
    IF layer_idx \in DOMAIN placeable_areas THEN polygons \cap placeable_areas[layer_idx] ELSE polygons

support_floor_layers == 1
branch_radius        == ElemRadius

\* area() of the cells, in units of (100 solver units)^2, pi taken as 3
DiskArea(r)    == 3 * sqr(r \div 100)
area(mb, polygons) == Cardinality(polygons) * DiskArea(ElemRadius)

\* lines 184-196, 226-227: the z span of the tube with its two half spheres
AxisZ(mb, a, b, radius) ==
    LET p1 == unscaled2(Deref(mb, a).result_on_layer)
        p2 == unscaled2(Deref(mb, b).result_on_layer)
        dz == layer_z(b[1]) - layer_z(a[1])
        len == sqrt(Dot(VSub(p2, p1), VSub(p2, p1)) + sqr(dz))
    IN  DivT(dz * radius, len)

extrude_branch(mb, path) ==
    LET n == Len(path)
    IN  [ zmin |-> layer_z(path[1][1]) - AxisZ(mb, path[1], path[2], Deref(mb, path[1]).radius),
          zmax |-> layer_z(path[n][1]) + AxisZ(mb, path[n - 1], path[n], Deref(mb, path[n]).radius) ]

\* lines 780-782; layer_z of a negative index is taken at (size_t)layer_idx
slice_z(layer_idx) ==
    IF layer_idx < 0 THEN layer_z(MaxLayers + 64)
    ELSE (layer_z(layer_idx) + (IF layer_idx > 0 THEN layer_z(layer_idx - 1) ELSE 0)) \div 2

\* slice_mesh of the tube at one layer: the cross section of the path element
\* of that layer, of the bottom cap below the path and of the top cap above it.
slice_mesh(path, zspan, layer_idx) ==
    IF zspan.zmin < slice_z(layer_idx) /\ slice_z(layer_idx) < zspan.zmax
    THEN LET n == Len(path)
             k == Max(1, Min(n, layer_idx - path[1][1] + 1))
         IN  {path[k]}
    ELSE {}

Reverse(sq) == [k \in 1 .. Len(sq) |-> sq[Len(sq) + 1 - k]]

\* lines 821-828: the root slice dropped down layer by layer
RECURSIVE Propagate(_, _, _, _, _, _)
Propagate(mb, front_slice, rest_support, layer_idx, layer_bottommost, support_area_stop) ==
    IF layer_idx < layer_bottommost THEN <<>>
    ELSE LET rest == diff_collision(IF rest_support = {} THEN front_slice ELSE rest_support, layer_idx, FALSE)
         IN  IF area(mb, rest) < support_area_stop THEN <<>>
             ELSE <<rest>> \o Propagate(mb, front_slice, rest, layer_idx - 1, layer_bottommost, support_area_stop)

\* line 809 and, commented out, line 808
layers_propagate_max(bottom_radius) == (5 * bottom_radius) \div layer_height
\* line 815
support_area_stop(bottom_radius) == Max(DiskArea(bottom_radius) \div 5, DiskArea(branch_radius) \div 2)

\* Variant of lines 795-828 with layers_propagate_max of line 808, 2 * bottom_radius / layer_height.
BottomExtraSlicesTwoRadii(mb, front, has_root, front_slice, layer_begin) ==
    IF front_slice # {} /\ has_root /\ ~front.to_model_gracious /\ layer_begin > 0
    THEN Propagate(mb, front_slice, {}, layer_begin - 1,
                   IF front.verylost THEN 0 ELSE Max(0, layer_begin - (2 * front.radius) \div layer_height),
                   support_area_stop(front.radius))
    ELSE <<>>

\* lines 795-828: bottom_extra_slices of a branch whose first slice is front_slice
BottomExtraSlices(mb, front, has_root, front_slice, layer_begin) ==
    IF front_slice # {} /\ has_root /\ ~front.to_model_gracious /\ layer_begin > 0
    THEN Propagate(mb, front_slice, {}, layer_begin - 1,
                   IF front.verylost THEN 0 ELSE Max(0, layer_begin - layers_propagate_max(front.radius)),
                   support_area_stop(front.radius))
    ELSE <<>>

RECURSIVE DropTrailingEmpty(_)
DropTrailingEmpty(sq) ==
    IF sq # <<>> /\ sq[Len(sq)] = {} THEN DropTrailingEmpty(SubSeq(sq, 1, Len(sq) - 1)) ELSE sq

\* Variant of lines 845-848 whose loop starts at the last extra slice
\* (i = size - 1), as the disabled loop of lines 831-843 does.
BottomContactsFromLast(bottom_extra_slices, layer_begin) ==
    LET nx == Len(bottom_extra_slices)
    IN  [k \in 1 .. nx |-> intersection_placeable(bottom_extra_slices[nx + 1 - k], layer_begin - (nx - k) - 1)]

\* lines 845-848: i runs from size - 2 down to 0; the k-th entry comes from
\* bottom_extra_slices[i] with i = size - 1 - k (0-based), the extra slice of
\* layer layer_begin - i - 1.
BottomContacts(bottom_extra_slices, layer_begin) ==
    LET nx == Len(bottom_extra_slices)
    IN  [k \in 1 .. nx - 1 |-> intersection_placeable(bottom_extra_slices[nx - k], layer_begin - (nx - 1 - k) - 1)]

\* lines 790-876: the slices of a branch from layer_begin0 up to layer_end0
\* with the layers below its root, its bottom contacts and its layers
RootedBranchSlices(mb, front, has_root, slices0, layer_begin0, layer_end0) ==
    LET nonempty  == {j \in DOMAIN slices0 : slices0[j] # {}}
        num_empty == IF slices0[1] # {} THEN 0
                     ELSE IF nonempty = {} THEN Len(slices0) ELSE SetMin(nonempty) - 1
        rooted    == slices0[1] # {} /\ has_root
        bottom_extra_slices  == BottomExtraSlices(mb, front, has_root, slices0[1], layer_begin0)
        nx == Len(bottom_extra_slices)
        contacts ==
            IF ~rooted \/ support_floor_layers <= 0 THEN <<>>
            ELSE IF front.to_model_gracious THEN <<intersection_placeable(slices0[1], layer_begin0)>>
            ELSE IF layer_begin0 > 0 /\ nx >= 2
                 THEN BottomContacts(bottom_extra_slices, layer_begin0)
                 ELSE <<>>
        slices1 == DropTrailingEmpty(Reverse(bottom_extra_slices) \o slices0)
    IN  [ slices          |-> slices1,
          bottom_contacts |-> contacts,
          num_empty       |-> num_empty,
          layer_begin     |-> layer_begin0 - nx + num_empty,
          layer_end       |-> layer_end0 - (nx + Len(slices0) - Len(slices1)) ]

\* lines 771-876: the slices of one branch, its bottom contacts and its layers
BranchSlices(mb, branch) ==
    LET path  == branch.path
        front == Deref(mb, path[1])
        back  == Deref(mb, path[Len(path)])
        zspan == extrude_branch(mb, path)
        layer_begin0 == IF branch.has_root THEN front.layer_idx
                        ELSE Min(front.layer_idx, layer_idx_ceil(zspan.zmin))
        layer_end0   == (IF branch.has_tip THEN back.layer_idx
                         ELSE Max(back.layer_idx, layer_idx_floor(zspan.zmax))) + 1
        slices0 == [j \in 1 .. layer_end0 - layer_begin0 |->
                       diff_collision(slice_mesh(path, zspan, layer_begin0 + j - 1), layer_begin0 + j - 1, TRUE)]
    IN  RootedBranchSlices(mb, front, branch.has_root, slices0, layer_begin0, layer_end0)

\* struct Slice, struct Tree (lines 658-669)
Slice == [polygons |-> {}, bottom_contacts |-> {}, num_branches |-> 0]
Tree(branches) == [branches |-> branches, slices |-> <<>>, first_layer_id |-> -1]

\* Variant of lines 897-905 that assigns the source instead of appending it.
AddToSliceAssigning(dst, polygons, has_contacts, contacts) ==
    [ polygons        |-> polygons,
      bottom_contacts |-> IF has_contacts THEN contacts ELSE dst.bottom_contacts,
      num_branches    |-> dst.num_branches + 1 ]

\* lines 897-905: one more branch in a slice
AddToSlice(dst, polygons, has_contacts, contacts) ==
    IF dst.num_branches + 1 > 1
    THEN [ polygons        |-> dst.polygons \cup polygons,
           bottom_contacts |-> IF has_contacts THEN dst.bottom_contacts \cup contacts ELSE dst.bottom_contacts,
           num_branches    |-> dst.num_branches + 1 ]
    ELSE [ polygons        |-> polygons,
           bottom_contacts |-> IF has_contacts THEN contacts ELSE dst.bottom_contacts,
           num_branches    |-> dst.num_branches + 1 ]

\* Variant of lines 881-890 that leaves the slices where they are when the
\* range grows downward.
GrowDownInPlace(tree, new_begin) == tree.slices

\* lines 881-890: empty slices in front of the tree for the layers below it
GrowDown(tree, new_begin) ==
    LET dif == tree.first_layer_id - new_begin
    IN  IF tree.first_layer_id # -1 /\ dif > 0 THEN [k \in 1 .. dif |-> Slice] \o tree.slices ELSE tree.slices

\* lines 878-880, 893-896: the size tree.slices is given, and for every
\* non-empty slice of the branch the index j it is read at and the index
\* i - new_begin it is written at
MergeWrites(tree, bs) ==
    LET fl          == tree.first_layer_id
        new_begin   == IF fl = -1 THEN bs.layer_begin ELSE Min(fl, bs.layer_begin)
        new_end     == IF fl = -1 THEN bs.layer_end ELSE Max(fl + Len(tree.slices), bs.layer_end)
        layer_begin == bs.layer_begin - bs.num_empty
    IN  [ new_size |-> new_end - new_begin,
          writes   |-> IF ~(bs.layer_begin < bs.layer_end) THEN {}
                       ELSE {[j |-> i - layer_begin, dst |-> i - new_begin] :
                                i \in {l \in layer_begin .. bs.layer_end - 1 : bs.slices[l - layer_begin + 1] # {}}} ]

\* lines 877-909: the slices of a branch merged into its tree
MergeBranch(tree, bs) ==
    IF ~(bs.layer_begin < bs.layer_end) THEN tree
    ELSE LET fl        == tree.first_layer_id
             new_begin == IF fl = -1 THEN bs.layer_begin ELSE Min(fl, bs.layer_begin)
             new_end   == IF fl = -1 THEN bs.layer_end ELSE Max(fl + Len(tree.slices), bs.layer_end)
             new_size  == new_end - new_begin
             dif       == fl - new_begin
             moved     == GrowDown(tree, new_begin)
             grown     == moved \o [k \in 1 .. new_size - Len(moved) |-> Slice]
             layer_begin == bs.layer_begin - bs.num_empty
         IN  [tree EXCEPT
                 !.first_layer_id = new_begin,
                 !.slices = [k \in 1 .. Len(grown) |->
                     LET i == new_begin + k - 1
                         j == i - layer_begin
                     IN  IF i >= layer_begin /\ i < bs.layer_end /\ bs.slices[j + 1] # {}
                         THEN AddToSlice(grown[k], bs.slices[j + 1], j < Len(bs.bottom_contacts),
                                         IF j < Len(bs.bottom_contacts) THEN bs.bottom_contacts[j + 1] ELSE {})
                         ELSE grown[k]]]

\* lines 918-923
UnionSlices(tree) ==
    [tree EXCEPT !.slices = [k \in DOMAIN tree.slices |->
        IF tree.slices[k].num_branches > 1 THEN [tree.slices[k] EXCEPT !.num_branches = 1] ELSE tree.slices[k]]]

\* Variant of lines 928-933 that makes a slice for every layer of move_bounds.
NumLayersOfMoveBounds(trs) == Size(move_bounds)

\* lines 928-931
NumLayers(trs) ==
    LET ends == {trs[t].first_layer_id + Len(trs[t].slices) : t \in {u \in DOMAIN trs : trs[u].first_layer_id >= 0}}
    IN  IF ends = {} THEN 0 ELSE CHOOSE m \in ends : \A x \in ends : x <= m

\* lines 934-947: layer i of the first t trees, merged
RECURSIVE FlatSlice(_, _, _)
FlatSlice(trs, i, t) ==
    IF t = 0 THEN Slice
    ELSE LET dst  == FlatSlice(trs, i, t - 1)
             tree == trs[t]
             k    == i - tree.first_layer_id + 1
         IN  IF tree.first_layer_id >= 0 /\ k \in DOMAIN tree.slices /\ tree.slices[k].polygons # {}
             THEN AddToSlice(dst, tree.slices[k].polygons, TRUE, tree.slices[k].bottom_contacts)
             ELSE dst

FlatSlices(trs) == [i \in 0 .. NumLayers(trs) - 1 |-> FlatSlice(trs, i, Len(trs))]

\* layer_allocate: a new SupportGeneratorLayer
SupportGeneratorLayer(layer_type, layer_idx, polygons) ==
    [layer_type |-> layer_type, layer_idx |-> layer_idx, print_z |-> layer_z(layer_idx), polygons |-> polygons]

\* Variant of lines 952-983 without the diff of line 974.
FinalPolygonsKeepingContact(slice, tops, layer_idx) ==
    LET base0   == slice.polygons
        bottom0 == slice.bottom_contacts
        top     == IF tops = <<>> THEN <<>> ELSE tops[layer_idx]
        clip    == top # <<>> /\ top[1].polygons # {} /\ base0 # {}
    IN  [ bottom_contact |-> IF clip /\ bottom0 # {} THEN bottom0 \ top[1].polygons ELSE bottom0,
          base           |-> IF clip THEN base0 \ top[1].polygons ELSE base0 ]

\* lines 952-983: the polygons of the two layers made for layer_idx
FinalPolygons(slice, tops, layer_idx) ==
    LET base0   == slice.polygons
        bottom0 == slice.bottom_contacts
        top     == IF tops = <<>> THEN <<>> ELSE tops[layer_idx]
        clip    == top # <<>> /\ top[1].polygons # {} /\ base0 # {}
        base1   == IF clip THEN base0 \ top[1].polygons ELSE base0
        bottom1 == IF clip /\ bottom0 # {} THEN bottom0 \ top[1].polygons ELSE bottom0
    IN  [ bottom_contact |-> bottom1,
          base           |-> IF bottom1 # {} THEN base1 \ bottom1 ELSE base1 ]

\* The calls of throw_on_cancel: a step of the run, but for line 382, which the
\* step that builds the spheres ends with.
\* What was asked of volumes so far: the calls of
\* clear_all_but_object_collision and, for every query, the function, its
\* radius argument and whether the caches were cleared before it.
NoVolumeCalls == [clear_calls |-> 0, queries |-> {}]
Query(fn, radius) == [fn |-> fn, radius |-> radius, cleared |-> volumes_cleared]

\* lines 300-301: min_element_radius is set to 0 before it is passed on.
CacheQueryRadius(min_element_radius) == 0

\* The radius argument of lines 788, 799, 822 and 848, and a variant that
\* passes the radius of the branch's first element.
SliceQueryRadiusOfFront(front) == front.radius

SliceQueryRadius(front) == 0

\* The queries the worker makes for one branch (lines 788, 799, 822, 848),
\* bs being the outcome of slicing it.
BranchQueries(mb, branch, bs) ==
    LET front  == Deref(mb, branch.path[1])
        rooted == bs.num_empty = 0 /\ branch.has_root
        drops  == rooted /\ ~front.to_model_gracious /\ front.layer_idx > 0
        layer_bottommost == IF front.verylost THEN 0
                            ELSE Max(0, front.layer_idx - layers_propagate_max(front.radius))
    IN  {Query("getCollision", SliceQueryRadius(front))}
        \cup (IF drops /\ front.layer_idx - 1 >= layer_bottommost
              THEN {Query("getCollision", SliceQueryRadius(front))} ELSE {})
        \cup (IF bs.bottom_contacts # <<>>
              THEN {Query("getPlaceableAreas", SliceQueryRadius(front))} ELSE {})

ProbeSites == {"linearise", "solver_init", "cache", "spheres", "pass", "slice", "union", "finalise"}

\* ------------------------------------------------------------ the actions
Init ==
    /\ \E inp \in Inputs :
           move_bounds = inp.move_bounds /\ lines = inp.lines /\ top_contacts = inp.top_contacts
    /\ move_bounds_in = move_bounds
    /\ collision = <<>>
    /\ placeable_areas = <<>>
    /\ root_in = <<>>
    /\ extra_slices = <<>>
    /\ mesh_in = <<>> /\ ipath = 0 /\ its = <<>> /\ prev_strip = <<>> /\ rings = <<>> /\ strip_walk = <<>>
    /\ map_downwards_old = <<>> /\ lin_layer_idx = 0 /\ volumes_log = NoVolumeCalls /\ strip_calls = <<>> /\ merged = <<>>
    /\ pc = "linearise"
    /\ cancel = FALSE
    /\ cancel_when = [pc |-> "never", passes |-> 0, pass_over |-> FALSE, num_moved |-> 0]
    /\ raised_at = "none"
    /\ probes = [site \in ProbeSites |-> 0]
    /\ elements_with_link_down = <<>>
    /\ linear_data_layers = <<>>
    /\ layer_collision_cache = <<>>
    /\ cache_layer = 0
    /\ collision_spheres = <<>>
    /\ position0 = <<>>
    /\ iter = 0
    /\ num_moved = 0
    /\ pending = {}
    /\ volumes_cleared = FALSE
    /\ cursor = <<>>
    /\ trees = <<>>
    /\ visited = <<>>
    /\ branch_cursor = <<>>
    /\ tree_pending = {}
    /\ slices = <<>>
    /\ layer_pending = {}
    /\ intermediate_layers = [l \in DOMAIN move_bounds |-> -1]
    /\ bottom_contacts = [l \in DOMAIN move_bounds |-> -1]
    /\ layer_storage = <<>>

\* Solver passes whose parallel_for has returned.
PassesCompleted == IF pc = "pass" /\ pending = {} THEN iter + 1 ELSE iter

\* The caller's cancellation request: from now on throw_on_cancel() raises.
RequestCancel ==
    /\ ~cancel
    /\ pc \notin {"done", "cancelled"}
    /\ cancel' = TRUE
    /\ cancel_when' = [pc |-> pc, passes |-> PassesCompleted, pass_over |-> pending = {}, num_moved |-> num_moved]
    /\ UNCHANGED <<move_bounds, pc, raised_at, probes, inVars, rootVars, meshVars, auxVars, linVars, solverVars, extractVars, sliceVars, outVars>>

\* throw_on_cancel(): the step goes on to next, or the exception leaves the run.
AfterProbe(next) == IF cancel THEN "cancelled" ELSE next
ProbeAt(site, next) ==
    /\ pc' = AfterProbe(next)
    /\ raised_at' = IF cancel THEN site ELSE raised_at
    /\ probes' = [probes EXCEPT ![site] = @ + 1]
Probe(next) == ProbeAt(pc, next)

\* lines 596-637
Linearise ==
    /\ pc = "linearise"
    /\ elements_with_link_down' = ElementsWithLinkDown(move_bounds)
    /\ linear_data_layers' = LinearDataLayers(move_bounds)
    /\ Probe("solver_init")
    /\ UNCHANGED <<move_bounds, inVars, rootVars, meshVars, auxVars, cancelVars, solverVars, extractVars, sliceVars, outVars>>

\* lines 279-293: a cache entry for every layer up to the topmost element
CacheAlloc ==
    /\ pc = "solver_init"
    /\ layer_collision_cache' = [l \in DOMAIN LayerCollisionCache(elements_with_link_down, lines) |-> {}]
    /\ cache_layer' = 0
    /\ Probe("cache")
    /\ UNCHANGED <<move_bounds, inVars, rootVars, meshVars, auxVars, cancelVars, linVars, collision_spheres, position0, iter, num_moved, pending,
                   extractVars, sliceVars, outVars>>

\* line 296: min_element_radius_known() of the layer
Populated(l) == \E n \in DOMAIN elements_with_link_down : elements_with_link_down[n].layer = l

\* lines 295-310: one layer of the cache; the lines of a layer that holds
\* elements are built and the probe is called
CacheLayer ==
    /\ pc = "cache"
    /\ cache_layer < Size(layer_collision_cache)
    /\ cache_layer' = cache_layer + 1
    /\ IF Populated(cache_layer)
       THEN /\ layer_collision_cache' =
                   [layer_collision_cache EXCEPT
                       ![cache_layer] = LayerCollisionCache(elements_with_link_down, lines)[cache_layer]]
            /\ volumes_log' = [volumes_log EXCEPT !.queries = @ \cup
                    {Query("get_collision_lower_bound_area", CacheQueryRadius(ElemRadius))}]
            /\ Probe("cache")
       ELSE UNCHANGED <<layer_collision_cache, pc, raised_at, probes, volumes_log>>
    /\ UNCHANGED <<move_bounds, inVars, rootVars, meshVars, map_downwards_old, lin_layer_idx, strip_calls, merged, cancelVars, linVars, collision_spheres, position0, iter, num_moved, pending,
                   extractVars, sliceVars, outVars>>

\* lines 312-392: the spheres, and the start of the first pass
SolverInit ==
    /\ pc = "cache"
    /\ cache_layer = Size(layer_collision_cache)
    /\ LET cs0 == [n \in DOMAIN elements_with_link_down |->
                      CollisionSphere(move_bounds, elements_with_link_down, linear_data_layers,
                                      Size(layer_collision_cache), n)]
       IN  /\ collision_spheres' = BackUpPositions(cs0)
           /\ position0' = [n \in DOMAIN cs0 |-> cs0[n].position]
           /\ pending' = Unlocked(cs0)
    /\ iter' = 0
    /\ num_moved' = 0
    /\ ProbeAt("spheres", "pass")
    /\ UNCHANGED <<move_bounds, inVars, rootVars, meshVars, auxVars, cancelVars, linVars, layer_collision_cache, cache_layer, extractVars,
                   sliceVars, outVars>>

\* Variant of line 420 that compares with collision_extra_gap instead of EPSILON.
MovedBeyondGap(s) == s.last_collision_depth > 0 /\ s.last_collision_depth > collision_extra_gap

\* lines 417-422: the sphere counts as moved
Moved(s) == s.last_collision_depth > 0 /\ s.last_collision_depth > EPSILON

\* Variant of lines 395-455 without the probe of line 454.
SolveSphereNoProbe(n) ==
    /\ pc = "pass"
    /\ n \in pending
    /\ LET s == SphereStep(collision_spheres, move_bounds, linear_data_layers, layer_collision_cache, n)
       IN  /\ collision_spheres' = [collision_spheres EXCEPT ![n] = s]
           /\ num_moved' = IF Moved(s) THEN num_moved + 1 ELSE num_moved
    /\ pending' = pending \ {n}
    /\ UNCHANGED <<move_bounds, pc, raised_at, probes, inVars, rootVars, meshVars, auxVars, cancelVars, linVars, layer_collision_cache, cache_layer, position0, iter,
                   extractVars, sliceVars, outVars>>

\* lines 395-455: one iteration of a parallel worker, on an unlocked sphere
SolveSphere(n) ==
    /\ pc = "pass"
    /\ n \in pending
    /\ LET s == SphereStep(collision_spheres, move_bounds, linear_data_layers, layer_collision_cache, n)
       IN  /\ collision_spheres' = [collision_spheres EXCEPT ![n] = s]
           /\ num_moved' = IF Moved(s) THEN num_moved + 1 ELSE num_moved
    /\ pending' = pending \ {n}
    /\ Probe("pass")
    /\ UNCHANGED <<move_bounds, inVars, rootVars, meshVars, auxVars, cancelVars, linVars, layer_collision_cache, cache_layer, position0, iter,
                   extractVars, sliceVars, outVars>>

\* lines 465-466: no sphere moved, the loop breaks
PassConverged ==
    /\ pc = "pass" /\ pending = {}
    /\ num_moved = 0
    /\ iter' = iter + 1
    /\ pc' = "writeback"
    /\ UNCHANGED <<move_bounds, raised_at, probes, inVars, rootVars, meshVars, auxVars, cancelVars, linVars, layer_collision_cache, cache_layer, collision_spheres,
                   position0, num_moved, pending, extractVars, sliceVars, outVars>>

\* line 388: the last of the num_iter passes is over
PassLimit ==
    /\ pc = "pass" /\ pending = {}
    /\ num_moved # 0
    /\ iter + 1 >= num_iter
    /\ iter' = iter + 1
    /\ pc' = "writeback"
    /\ UNCHANGED <<move_bounds, raised_at, probes, inVars, rootVars, meshVars, auxVars, cancelVars, linVars, layer_collision_cache, cache_layer, collision_spheres,
                   position0, num_moved, pending, extractVars, sliceVars, outVars>>

\* Variant of lines 388-392, 465 without the break: a pass follows every pass.
NextPassAlways ==
    /\ pc = "pass" /\ pending = {}
    /\ iter + 1 < num_iter
    /\ iter' = iter + 1
    /\ collision_spheres' = BackUpPositions(collision_spheres)
    /\ num_moved' = 0
    /\ pending' = Unlocked(collision_spheres)
    /\ pc' = "pass"
    /\ probes' = [probes EXCEPT !["pass"] = 0]
    /\ UNCHANGED <<move_bounds, raised_at, inVars, rootVars, meshVars, auxVars, cancelVars, linVars, layer_collision_cache, cache_layer, position0,
                   extractVars, sliceVars, outVars>>

\* Variant of lines 388-392 that writes the positions back after every pass.
NextPassWritingBack ==
    /\ pc = "pass" /\ pending = {}
    /\ num_moved # 0
    /\ iter + 1 < num_iter
    /\ iter' = iter + 1
    /\ collision_spheres' = BackUpPositions(collision_spheres)
    /\ num_moved' = 0
    /\ pending' = Unlocked(collision_spheres)
    /\ move_bounds' = WriteBack(move_bounds, elements_with_link_down, collision_spheres)
    /\ pc' = "pass"
    /\ probes' = [probes EXCEPT !["pass"] = 0]
    /\ UNCHANGED <<raised_at, inVars, rootVars, meshVars, auxVars, cancelVars, linVars, layer_collision_cache, cache_layer, position0,
                   extractVars, sliceVars, outVars>>

\* lines 388-392: the next pass starts
NextPass ==
    /\ pc = "pass" /\ pending = {}
    /\ num_moved # 0
    /\ iter + 1 < num_iter
    /\ iter' = iter + 1
    /\ collision_spheres' = BackUpPositions(collision_spheres)
    /\ num_moved' = 0
    /\ pending' = Unlocked(collision_spheres)
    /\ pc' = "pass"
    /\ probes' = [probes EXCEPT !["pass"] = 0]
    /\ UNCHANGED <<move_bounds, raised_at, inVars, rootVars, meshVars, auxVars, cancelVars, linVars, layer_collision_cache, cache_layer, position0,
                   extractVars, sliceVars, outVars>>

\* lines 469-470
WriteBackPositions ==
    /\ pc = "writeback"
    /\ move_bounds' = WriteBack(move_bounds, elements_with_link_down, collision_spheres)
    /\ pc' = "clear_volumes"
    /\ UNCHANGED <<raised_at, probes, inVars, rootVars, meshVars, auxVars, cancelVars, linVars, solverVars, extractVars, sliceVars, outVars>>

\* lines 642-647
ClearVolumes ==
    /\ pc = "clear_volumes"
    /\ volumes_cleared' = TRUE
    /\ volumes_log' = [volumes_log EXCEPT !.clear_calls = @ + 1]
    /\ move_bounds' = Unmarked(move_bounds)
    /\ cursor' = FirstStart(move_bounds)
    /\ pc' = "extract"
    /\ UNCHANGED <<raised_at, probes, inVars, rootVars, meshVars, map_downwards_old, lin_layer_idx, strip_calls, merged, cancelVars, linVars, solverVars, trees, visited, sliceVars, outVars>>

\* line 728
StartsTree(e) == ~Deref(move_bounds, e).marked /\ Deref(move_bounds, e).parents # <<>>

\* lines 727-728: the element is marked or has no parents
SkipElement ==
    /\ pc = "extract" /\ cursor # <<>>
    /\ ~StartsTree(cursor[1])
    /\ cursor' = NextStart(move_bounds, cursor[1])
    /\ UNCHANGED <<move_bounds, pc, raised_at, probes, inVars, rootVars, meshVars, auxVars, cancelVars, linVars, solverVars, volumes_cleared, trees,
                   visited, sliceVars, outVars>>

\* lines 741-750: a tree is built from the element, and kept or popped
VisitTree ==
    /\ pc = "extract" /\ cursor # <<>>
    /\ StartsTree(cursor[1])
    /\ LET st   == visit_recursive([mb |-> move_bounds, branches |-> <<>>], cursor[1])
           kept == KeepTree(Deref(move_bounds, cursor[1]))
       IN  /\ move_bounds' = st.mb
           /\ trees' = IF kept THEN Append(trees, Tree(st.branches)) ELSE trees
           /\ visited' = Append(visited, [start |-> cursor[1], branches |-> st.branches])
    /\ cursor' = NextStart(move_bounds, cursor[1])
    /\ UNCHANGED <<pc, raised_at, probes, inVars, rootVars, meshVars, auxVars, cancelVars, linVars, solverVars, volumes_cleared, sliceVars, outVars>>

\* line 725: the loop over the start elements is over
ExtractDone ==
    /\ pc = "extract" /\ cursor = <<>>
    /\ branch_cursor' = [t \in DOMAIN trees |-> 1]
    /\ pc' = "slice"
    /\ UNCHANGED <<move_bounds, raised_at, probes, inVars, rootVars, meshVars, auxVars, cancelVars, linVars, solverVars, extractVars, tree_pending,
                   slices, layer_pending, outVars>>

\* lines 768-909: the worker of tree t slices its next branch; slice_mesh
\* calls the probe before the branch reaches the tree
SliceBranch(t) ==
    /\ pc = "slice"
    /\ branch_cursor[t] <= Len(trees[t].branches)
    /\ IF cancel
       THEN UNCHANGED <<trees, branch_cursor, volumes_log>>
       ELSE LET branch == trees[t].branches[branch_cursor[t]]
                bs     == BranchSlices(move_bounds, branch)
            IN  /\ trees' = [trees EXCEPT ![t] = MergeBranch(@, bs)]
                /\ branch_cursor' = [branch_cursor EXCEPT ![t] = @ + 1]
                /\ volumes_log' = [volumes_log EXCEPT !.queries = @ \cup BranchQueries(move_bounds, branch, bs)]
    /\ Probe("slice")
    /\ UNCHANGED <<move_bounds, inVars, rootVars, meshVars, map_downwards_old, lin_layer_idx, strip_calls, merged, cancelVars, linVars, solverVars, volumes_cleared, cursor, visited,
                   tree_pending, slices, layer_pending, outVars>>

\* line 912: every branch of every tree is sliced
SliceDone ==
    /\ pc = "slice"
    /\ \A t \in DOMAIN trees : branch_cursor[t] > Len(trees[t].branches)
    /\ tree_pending' = DOMAIN trees
    /\ pc' = "union"
    /\ UNCHANGED <<move_bounds, raised_at, probes, inVars, rootVars, meshVars, auxVars, cancelVars, linVars, solverVars, extractVars, branch_cursor,
                   slices, layer_pending, outVars>>

\* lines 916-925
UnionTree(t) ==
    /\ pc = "union"
    /\ t \in tree_pending
    /\ trees' = [trees EXCEPT ![t] = UnionSlices(@)]
    /\ tree_pending' = tree_pending \ {t}
    /\ Probe("union")
    /\ UNCHANGED <<move_bounds, inVars, rootVars, meshVars, auxVars, cancelVars, linVars, solverVars, volumes_cleared, cursor, visited,
                   branch_cursor, slices, layer_pending, outVars>>

\* lines 926-949: all trees are unioned; their slices are merged per layer
UnionDone ==
    /\ pc = "union"
    /\ tree_pending = {}
    /\ slices' = FlatSlices(trees)
    /\ layer_pending' = 0 .. (Min(Size(move_bounds), NumLayers(trees)) - 1)
    /\ pc' = "finalise"
    /\ UNCHANGED <<move_bounds, raised_at, probes, inVars, rootVars, meshVars, auxVars, cancelVars, linVars, solverVars, extractVars, branch_cursor,
                   tree_pending, outVars>>

\* lines 951-985: the layers of layer_idx are allocated and published, then
\* the probe is called
FinaliseLayer(layer_idx) ==
    /\ pc = "finalise"
    /\ layer_idx \in layer_pending
    /\ LET polys    == FinalPolygons(slices[layer_idx], top_contacts, layer_idx)
           storage1 == IF polys.bottom_contact # {}
                       THEN Append(layer_storage, SupportGeneratorLayer("BottomContact", layer_idx, polys.bottom_contact))
                       ELSE layer_storage
           storage2 == IF polys.base # {}
                       THEN Append(storage1, SupportGeneratorLayer("Base", layer_idx, polys.base))
                       ELSE storage1
       IN  /\ layer_storage' = storage2
           /\ bottom_contacts' = IF polys.bottom_contact # {}
                                 THEN [bottom_contacts EXCEPT ![layer_idx] = Len(storage1)]
                                 ELSE bottom_contacts
           /\ intermediate_layers' = IF polys.base # {}
                                     THEN [intermediate_layers EXCEPT ![layer_idx] = Len(storage2)]
                                     ELSE intermediate_layers
    /\ slices' = [slices EXCEPT ![layer_idx] = Slice]
    /\ layer_pending' = layer_pending \ {layer_idx}
    /\ Probe("finalise")
    /\ UNCHANGED <<move_bounds, inVars, rootVars, meshVars, auxVars, cancelVars, linVars, solverVars, extractVars, branch_cursor, tree_pending>>

\* line 988
Return ==
    /\ pc = "finalise"
    /\ layer_pending = {}
    /\ pc' = "done"
    /\ UNCHANGED <<move_bounds, raised_at, probes, inVars, rootVars, meshVars, auxVars, cancelVars, linVars, solverVars, extractVars, sliceVars, outVars>>

Next ==
    \/ RequestCancel
    \/ Linearise
    \/ CacheAlloc
    \/ CacheLayer
    \/ SolverInit
    \/ \E n \in pending : SolveSphere(n)
    \/ PassConverged
    \/ PassLimit
    \/ NextPass
    \/ WriteBackPositions
    \/ ClearVolumes
    \/ SkipElement
    \/ VisitTree
    \/ ExtractDone
    \/ \E t \in DOMAIN trees : SliceBranch(t)
    \/ SliceDone
    \/ \E t \in tree_pending : UnionTree(t)
    \/ UnionDone
    \/ \E l \in layer_pending : FinaliseLayer(l)
    \/ Return

Spec == Init /\ [][Next]_vars

\* ------------------------------------------------- root propagation alone
\* Lines 795-828 for one rooted branch, over every collision of a few layers.
MaxRootLayer == 7
MaxRootCells == 2

\* The first element of the branch: thin, of branch_radius, or thick.
RootRadii == {ElemRadius \div 5, ElemRadius, 3 * ElemRadius}
\* has_root with a root that is neither verylost nor gracious, verylost, or
\* gracious; and a branch without has_root
RootKinds == {<<NoFlags, TRUE>>, <<<<FALSE, TRUE, FALSE>>, TRUE>>, <<<<FALSE, FALSE, TRUE>>, TRUE>>, <<NoFlags, FALSE>>}
RootCells(layer_begin) == {<<layer_begin, k>> : k \in 0 .. MaxRootCells - 1}
\* The object collision below the branch: some cells of the slice on one
\* layer, all of them on another.
RootCollisions(layer_begin) ==
    {[l \in 0 .. layer_begin - 1 |-> IF l = b THEN RootCells(layer_begin) ELSE IF l = a THEN ca ELSE {}] :
        a \in 0 .. layer_begin - 1, b \in 0 .. layer_begin, ca \in SUBSET RootCells(layer_begin)}
\* The placeable areas under the branch: all of the slice on the odd layers,
\* its first cell only on the even ones, so that no two layers next to each
\* other have the same.
RootPlaceable(layer_begin) ==
    {[l \in 0 .. layer_begin |-> IF l % 2 = 0 THEN {<<layer_begin, 0>>} ELSE RootCells(layer_begin)]}
RootInputs ==
    UNION {{[front       |-> [SupportElement(<<0>>, PosA, lb, kind[1]) EXCEPT !.radius = r],
             has_root    |-> kind[2],
             front_slice |-> RootCells(lb),
             layer_begin |-> lb,
             collision   |-> col,
             placeable_areas |-> pl] :
               r \in RootRadii, kind \in RootKinds, col \in RootCollisions(lb), pl \in RootPlaceable(lb)} :
           lb \in 1 .. MaxRootLayer}

InitRoot ==
    /\ \E inp \in RootInputs :
           /\ root_in = [front |-> inp.front, has_root |-> inp.has_root, front_slice |-> inp.front_slice,
                         layer_begin |-> inp.layer_begin]
           /\ collision = inp.collision
           /\ placeable_areas = inp.placeable_areas
    /\ extra_slices = <<>>
    /\ mesh_in = <<>> /\ ipath = 0 /\ its = <<>> /\ prev_strip = <<>> /\ rings = <<>> /\ strip_walk = <<>>
    /\ map_downwards_old = <<>> /\ lin_layer_idx = 0 /\ volumes_log = NoVolumeCalls /\ strip_calls = <<>> /\ merged = <<>>
    /\ pc = "root"
    /\ move_bounds = <<>> /\ move_bounds_in = <<>> /\ lines = <<>> /\ top_contacts = <<>>
    /\ cancel = FALSE
    /\ cancel_when = [pc |-> "never", passes |-> 0, pass_over |-> FALSE, num_moved |-> 0]
    /\ raised_at = "none"
    /\ probes = [site \in ProbeSites |-> 0]
    /\ elements_with_link_down = <<>> /\ linear_data_layers = <<>>
    /\ layer_collision_cache = <<>> /\ cache_layer = 0 /\ collision_spheres = <<>> /\ position0 = <<>>
    /\ iter = 0 /\ num_moved = 0 /\ pending = {}
    /\ volumes_cleared = FALSE /\ cursor = <<>> /\ trees = <<>> /\ visited = <<>>
    /\ branch_cursor = <<>> /\ tree_pending = {} /\ slices = <<>> /\ layer_pending = {}
    /\ intermediate_layers = <<>> /\ bottom_contacts = <<>> /\ layer_storage = <<>>

\* lines 795-828
PropagateRoot ==
    /\ pc = "root"
    /\ extra_slices' = BottomExtraSlices(move_bounds, root_in.front, root_in.has_root, root_in.front_slice,
                                         root_in.layer_begin)
    /\ pc' = "root_done"
    /\ UNCHANGED <<move_bounds, raised_at, probes, inVars, root_in, meshVars, auxVars, cancelVars, linVars, solverVars, extractVars,
                   sliceVars, outVars>>

\* lines 845-853, 872-909: the bottom contacts, the extra slices put in front
\* of the slice of the root, and the merge into the tree of the branch
MergeRoot ==
    /\ pc = "root_done"
    /\ trees' = <<MergeBranch(Tree(<<>>),
                              RootedBranchSlices(move_bounds, root_in.front, root_in.has_root,
                                                 <<root_in.front_slice>>, root_in.layer_begin,
                                                 root_in.layer_begin + 1))>>
    /\ pc' = "root_merged"
    /\ UNCHANGED <<move_bounds, raised_at, probes, inVars, rootVars, meshVars, auxVars, cancelVars, linVars, solverVars,
                   volumes_cleared, cursor, visited, sliceVars, outVars>>

NextRoot == PropagateRoot \/ MergeRoot

SpecRoot == InitRoot /\ [][NextRoot]_vars

\* ------------------------------------------------------------ the tube mesher
\* A mesh is [nv, indices]: nv = vertices.size() and indices is the sequence
\* of triangles, each a triple of 0-based vertex indices. Coordinates are not
\* kept: what they decide (the number of steps of a circle, the closest
\* vertex, the shorter diagonal) is drawn as an input.
MaxRing     == 4    \* most vertices of a discretised circle
MaxCapSteps == 3    \* most steps of a half sphere
MaxPath     == 3    \* most elements of a path
NumRadii    == 2    \* the circles of a path repeat their step counts after so many
MaxGarbage  == 1000 \* largest index an uninitialised prev_strip is drawn with

EmptyMesh == [nv |-> 0, indices |-> <<>>]

\* vertices.emplace_back(..)
emplace_back(mesh) == [mesh EXCEPT !.nv = @ + 1]

\* lines 60-65: one triangle per ring vertex v, u being the vertex before it
\* (the last one for the first).
triangulate_fan(mesh, flip_normals, ifan, ibegin, iend) ==
    [mesh EXCEPT !.indices = @ \o
        [k \in 1 .. iend - ibegin |->
            LET v == ibegin + k - 1
                u == IF k = 1 THEN iend - 1 ELSE v - 1
            IN IF flip_normals THEN <<ifan, u, v>> ELSE <<ifan, v, u>>]]

\* lines 75-76 and the loop header of line 95.
StripStart(ibegin1, iend1, ibegin2, iend2, istart2) ==
    [ibegin1 |-> ibegin1, iend1 |-> iend1, ibegin2 |-> ibegin2, iend2 |-> iend2,
     istart2 |-> istart2, u |-> ibegin1, v |-> istart2,
     n1 |-> iend1 - ibegin1, n2 |-> iend2 - ibegin2]

\* update_u2 / update_v2 (lines 98-107).
update_2(x, ibegin, iend) == IF x + 1 = iend THEN ibegin ELSE x + 1

\* lines 108-120; l1_shorter is l1 < l2 of line 119.
TakeFirstIgnoringCounts(w, l1_shorter) == l1_shorter

TakeFirst(w, l1_shorter) ==
    IF w.n1 = 0 THEN FALSE ELSE IF w.n2 = 0 THEN TRUE ELSE l1_shorter

\* One iteration of the loop of lines 95-130: the triangle pushed and the
\* loop variables after it.
StripIteration(w, l1_shorter) ==
    LET u2 == update_2(w.u, w.ibegin1, w.iend1)
        v2 == update_2(w.v, w.ibegin2, w.iend2)
    IN IF TakeFirst(w, l1_shorter)
       THEN [tri |-> <<w.u, u2, w.v>>, w |-> [w EXCEPT !.n1 = @ - 1, !.u = u2]]
       ELSE [tri |-> <<w.u, v2, w.v>>, w |-> [w EXCEPT !.n2 = @ - 1, !.v = v2]]

\* What the coordinates decide inside triangulate_strip, as a policy:
\* offset picks the closest vertex of ring 2 (lines 80-92), take the outcome
\* of l1 < l2 (line 119).
StripPolicies == [offset : {0, 1}, take : {"first", "second", "alternate"}]

Closest(policy, ibegin2, iend2) ==
    IF iend2 > ibegin2 THEN ibegin2 + (policy.offset % (iend2 - ibegin2)) ELSE ibegin2

Shorter(policy, w) ==
    CASE policy.take = "first"     -> TRUE
      [] policy.take = "second"    -> FALSE
      [] policy.take = "alternate" -> (w.n1 + w.n2) % 2 = 0

RECURSIVE StripWalk(_, _, _)
StripWalk(mesh, w, policy) ==
    IF w.n1 > 0 \/ w.n2 > 0
    THEN LET it == StripIteration(w, Shorter(policy, w))
         IN StripWalk([mesh EXCEPT !.indices = Append(@, it.tri)], it.w, policy)
    ELSE mesh

triangulate_strip(mesh, ibegin1, iend1, ibegin2, iend2, policy) ==
    StripWalk(mesh, StripStart(ibegin1, iend1, ibegin2, iend2,
                               Closest(policy, ibegin2, iend2)), policy)

\* The state of extrude_branch: the mesh, prev_strip and the ranges
\* discretize_circle has returned so far.
\* discretize_circle (lines 147-156) appends nsteps points and returns
\* {begin, pts.size()}; the range is the last of st.rings.
discretize_circle(st, nsteps) ==
    [st EXCEPT !.its.nv = @ + nsteps,
               !.rings = Append(@, <<st.its.nv, st.its.nv + nsteps>>)]

Last(s) == s[Len(s)]

\* nsteps of line 138 for the next circle of the path: the circles of a
\* path take their step counts from inp.circle in turn.
CircleSteps(st, inp) == inp.circle[Len(st.rings) % NumRadii]

\* A call triangulate_strip(result, prev_strip.first, prev_strip.second, ...)
\* (lines 204, 220, 239): what prev_strip held, and whether that range is one
\* discretize_circle returned earlier for this mesh.
StripCall(st) ==
    Append(st.strip_calls, [first |-> st.prev_strip, emitted |-> st.prev_strip \in Range(st.rings)])

\* lines 198-207: the circles of the bottom half sphere from i on.
RECURSIVE BottomCircles(_, _, _, _)
BottomCircles(st, inp, ifan, i) ==
    IF i >= inp.nsteps_bottom THEN st
    ELSE LET s1    == discretize_circle(st, CircleSteps(st, inp))
             strip == Last(s1.rings)
             mesh  == IF i = 1
                      THEN triangulate_fan(s1.its, FALSE, ifan, strip[1], strip[2])
                      ELSE triangulate_strip(s1.its, st.prev_strip[1], st.prev_strip[2],
                                             strip[1], strip[2], inp.policy)
         IN BottomCircles([s1 EXCEPT !.its = mesh, !.prev_strip = strip,
                                     !.strip_calls = IF i = 1 THEN @ ELSE StripCall(st)],
                          inp, ifan, i + 1)

\* lines 187-208.
BottomHalfSphere(st, inp) ==
    BottomCircles([st EXCEPT !.its = emplace_back(@)], inp, st.its.nv, 1)

\* lines 218-224: the circles of the top half sphere from i on.
RECURSIVE TopCircles(_, _, _)
TopCircles(st, inp, i) ==
    IF i >= inp.nsteps_top THEN st
    ELSE LET s1    == discretize_circle(st, CircleSteps(st, inp))
             strip == Last(s1.rings)
             mesh  == triangulate_strip(s1.its, st.prev_strip[1], st.prev_strip[2],
                                        strip[1], strip[2], inp.policy)
         IN TopCircles([s1 EXCEPT !.its = mesh, !.prev_strip = strip, !.strip_calls = StripCall(st)],
                       inp, i + 1)

\* lines 225-228: the apex and the fan closing the tube.
TopFanBeforeApex(st) ==
    [st EXCEPT !.its = triangulate_fan(@, TRUE, st.its.nv, st.prev_strip[1], st.prev_strip[2])]

TopFan(st) ==
    [st EXCEPT !.its = triangulate_fan(emplace_back(@), TRUE, st.its.nv,
                                       st.prev_strip[1], st.prev_strip[2])]

\* lines 209-230.
TopHalfSphere(st, inp) == TopFan(TopCircles(st, inp, 0))

\* lines 231-243.
InteriorRing(st, inp) ==
    LET s1    == discretize_circle(st, CircleSteps(st, inp))
        strip == Last(s1.rings)
    IN [s1 EXCEPT !.its = triangulate_strip(s1.its, st.prev_strip[1], st.prev_strip[2],
                                            strip[1], strip[2], inp.policy),
                  !.prev_strip = strip,
                  !.strip_calls = StripCall(st)]

\* ------------------------------------------------- extrude_branch alone
\* The inputs of one call: path.size(), the step counts the radii of the
\* path give (nsteps of lines 192 and 215, which is 1 for a radius of at
\* most eps / (1 - cos(pi/4)) = 0.0512 mm, and nsteps of line 138, at least
\* 3 for a circle wider than eps) and the policy standing for the distances.
MeshInputs ==
    [size : 2 .. MaxPath, nsteps_bottom : 1 .. MaxCapSteps, nsteps_top : 1 .. MaxCapSteps,
     circle : [0 .. NumRadii - 1 -> 3 .. MaxRing], policy : StripPolicies]

\* `std::pair<int, int> prev_strip;` (line 173) has no initialiser: until
\* line 206, 223 or 240 assigns it, it holds whatever the stack held.
UninitStrips == {<<b, b + n>> : b \in {-1, 0, MaxGarbage}, n \in {0, 3}}

InitMesh ==
    /\ move_bounds = <<>>
    /\ move_bounds_in = <<>>
    /\ lines = <<>>
    /\ top_contacts = <<>>
    /\ collision = <<>>
    /\ placeable_areas = <<>>
    /\ cancel = FALSE
    /\ raised_at = "none"
    /\ probes = [site \in ProbeSites |-> 0]
    /\ root_in = <<>>
    /\ extra_slices = <<>>
    /\ mesh_in \in MeshInputs
    /\ ipath = 1
    /\ its = EmptyMesh
    /\ prev_strip \in UninitStrips
    /\ rings = <<>>
    /\ map_downwards_old = <<>> /\ lin_layer_idx = 0 /\ volumes_log = NoVolumeCalls /\ strip_calls = <<>> /\ merged = <<>>
    /\ strip_walk = <<>>
    /\ pc = "extrude"
    /\ cancel_when = [pc |-> "never", passes |-> 0, pass_over |-> FALSE, num_moved |-> 0]
    /\ elements_with_link_down = <<>> /\ linear_data_layers = <<>>
    /\ layer_collision_cache = <<>> /\ cache_layer = 0 /\ collision_spheres = <<>> /\ position0 = <<>>
    /\ iter = 0 /\ num_moved = 0 /\ pending = {}
    /\ volumes_cleared = FALSE /\ cursor = <<>> /\ trees = <<>> /\ visited = <<>>
    /\ branch_cursor = <<>> /\ tree_pending = {} /\ slices = <<>> /\ layer_pending = {}
    /\ intermediate_layers = <<>> /\ bottom_contacts = <<>> /\ layer_storage = <<>>

\* One iteration of the loop of lines 180-254; after the last one the
\* function returns (line 256).
ExtrudeSegment ==
    /\ pc = "extrude"
    /\ ipath < mesh_in.size
    /\ LET st0 == [its |-> its, prev_strip |-> prev_strip, rings |-> rings, strip_calls |-> strip_calls]
           st1 == IF ipath = 1 THEN BottomHalfSphere(st0, mesh_in) ELSE st0
           st2 == IF ipath + 1 = mesh_in.size THEN TopHalfSphere(st1, mesh_in)
                  ELSE InteriorRing(st1, mesh_in)
       IN /\ its' = st2.its
          /\ prev_strip' = st2.prev_strip
          /\ rings' = st2.rings
          /\ strip_calls' = st2.strip_calls
    /\ ipath' = ipath + 1
    /\ pc' = IF ipath + 1 = mesh_in.size THEN "extruded" ELSE "extrude"
    /\ UNCHANGED <<move_bounds, raised_at, probes, inVars, rootVars, map_downwards_old, lin_layer_idx, volumes_log, merged,
                   mesh_in, strip_walk, cancelVars, linVars, solverVars, extractVars, sliceVars, outVars>>

NextMesh == ExtrudeSegment

SpecMesh == InitMesh /\ [][NextMesh]_vars

\* ------------------------------------------------- triangulate_strip alone
\* Two rings of a mesh, ring 2 appended after ring 1 as extrude_branch does,
\* behind ibegin1 earlier vertices; istart2 is any vertex of ring 2 and every
\* iteration may find either diagonal the shorter, which covers every
\* assignment of the vertex distances.
StripInputs ==
    {StripStart(b, b + n1, b + n1, b + n1 + n2, i2) :
        <<b, n1, n2, i2>> \in {q \in (0 .. 1) \X (3 .. MaxRing) \X (3 .. MaxRing) \X (0 .. 1 + 2 * MaxRing) :
                                  q[4] >= q[1] + q[2] /\ q[4] < q[1] + q[2] + q[3]}}

InitStrip ==
    /\ move_bounds = <<>>
    /\ move_bounds_in = <<>>
    /\ lines = <<>>
    /\ top_contacts = <<>>
    /\ collision = <<>>
    /\ placeable_areas = <<>>
    /\ cancel = FALSE
    /\ raised_at = "none"
    /\ probes = [site \in ProbeSites |-> 0]
    /\ root_in = <<>>
    /\ extra_slices = <<>>
    /\ mesh_in = <<>>
    /\ ipath = 0
    /\ strip_walk \in StripInputs
    /\ its = [nv |-> strip_walk.iend2, indices |-> <<>>]
    /\ prev_strip = <<strip_walk.ibegin1, strip_walk.iend1>>
    /\ rings = <<>>
    /\ map_downwards_old = <<>> /\ lin_layer_idx = 0 /\ volumes_log = NoVolumeCalls /\ strip_calls = <<>> /\ merged = <<>>
    /\ pc = "strip"
    /\ cancel_when = [pc |-> "never", passes |-> 0, pass_over |-> FALSE, num_moved |-> 0]
    /\ elements_with_link_down = <<>> /\ linear_data_layers = <<>>
    /\ layer_collision_cache = <<>> /\ cache_layer = 0 /\ collision_spheres = <<>> /\ position0 = <<>>
    /\ iter = 0 /\ num_moved = 0 /\ pending = {}
    /\ volumes_cleared = FALSE /\ cursor = <<>> /\ trees = <<>> /\ visited = <<>>
    /\ branch_cursor = <<>> /\ tree_pending = {} /\ slices = <<>> /\ layer_pending = {}
    /\ intermediate_layers = <<>> /\ bottom_contacts = <<>> /\ layer_storage = <<>>

\* One iteration of the loop of lines 95-130.
StripTriangle ==
    /\ pc = "strip"
    /\ strip_walk.n1 > 0 \/ strip_walk.n2 > 0
    /\ \E l1_shorter \in BOOLEAN :
           LET it == StripIteration(strip_walk, l1_shorter)
           IN /\ its' = [its EXCEPT !.indices = Append(@, it.tri)]
              /\ strip_walk' = it.w
    /\ UNCHANGED <<move_bounds, pc, raised_at, probes, inVars, rootVars, auxVars, mesh_in, ipath, prev_strip, rings,
                   cancelVars, linVars, solverVars, extractVars, sliceVars, outVars>>

\* The loop condition of line 95 fails: the function returns.
StripReturn ==
    /\ pc = "strip"
    /\ ~(strip_walk.n1 > 0 \/ strip_walk.n2 > 0)
    /\ pc' = "strip_done"
    /\ UNCHANGED <<move_bounds, raised_at, probes, inVars, rootVars, meshVars, auxVars, cancelVars, linVars,
                   solverVars, extractVars, sliceVars, outVars>>

NextStrip == StripTriangle \/ StripReturn

SpecStrip == InitStrip /\ [][NextStrip]_vars

\* ------------------------------------------------- the linearisation alone
\* The loop of lines 596-635 layer by layer, over forests whose elements may
\* have no result_on_layer yet.
LinInputs ==
    UNION {{[l \in DOMAIN tp |-> [i \in DOMAIN tp[l] |->
                [SupportElement(tp[l][i], PosA, l, NoFlags) EXCEPT !.result_on_layer_is_set = set[<<l, i>>]]]] :
              set \in [ElemIds(tp) -> BOOLEAN]} : tp \in Topologies}

\* emplace_back / push_back on a 0-based vector.
Push0(f, x) == [n \in 0 .. Size(f) |-> IF n < Size(f) THEN f[n] ELSE x]

\* std::sort by .first (line 602); a pointer into a layer is the element's index.
SortByFirst(s) ==
    CHOOSE t \in [1 .. Len(s) -> Range(s)] :
        /\ \A j, k \in 1 .. Len(s) : j < k => t[j] # t[k] /\ t[j][1] <= t[k][1]

\* std::lower_bound by .first (line 608): the first entry not below elem, or end().
lower_bound(old, elem) ==
    IF \E k \in DOMAIN old : old[k][1] >= elem
    THEN CHOOSE k \in DOMAIN old : old[k][1] >= elem /\ \A j \in 1 .. k - 1 : old[j][1] < elem
    ELSE Len(old) + 1

\* lines 606-613
ChildOf(old, layer_idx, elem_idx) ==
    IF layer_idx > 0
    THEN LET it == lower_bound(old, elem_idx)
         IN  IF it # Len(old) + 1 /\ old[it][1] = elem_idx THEN old[it][2] ELSE -1
    ELSE -1

\* lines 623-627: what one element appends to map_downwards_new.
ParentLinksAll(mb, layer_idx, elem_idx) ==
    [k \in 1 .. Len(mb[layer_idx][elem_idx].parents) |-> <<mb[layer_idx][elem_idx].parents[k], elem_idx>>]

ParentLinks(mb, layer_idx, elem_idx) ==
    LET IsSet(parent_idx) == mb[layer_idx + 1][parent_idx].result_on_layer_is_set
        kept == SelectSeq(mb[layer_idx][elem_idx].parents, IsSet)
    IN  [k \in 1 .. Len(kept) |-> <<kept[k], elem_idx>>]

\* line 633: the offset at which the next layer starts.
OffsetOfLayer(ewld, layer) == Size(layer)

OffsetAfter(ewld, layer) == Size(ewld)

\* lines 604-630: the elements of the layer from elem_idx on; st holds
\* elements_with_link_down and map_downwards_new.
RECURSIVE LineariseElems(_, _, _, _, _)
LineariseElems(st, mb, old, layer_idx, elem_idx) ==
    IF elem_idx >= Size(mb[layer_idx]) THEN st
    ELSE LineariseElems(
            [ewld |-> Push0(st.ewld, [layer |-> layer_idx, idx |-> elem_idx,
                                      child |-> ChildOf(old, layer_idx, elem_idx)]),
             new  |-> st.new \o ParentLinks(mb, layer_idx, elem_idx)],
            mb, old, layer_idx, elem_idx + 1)

InitLin ==
    /\ move_bounds \in LinInputs
    /\ move_bounds_in = move_bounds
    /\ lines = <<>>
    /\ top_contacts = <<>>
    /\ collision = <<>>
    /\ placeable_areas = <<>>
    /\ cancel = FALSE
    /\ raised_at = "none"
    /\ probes = [site \in ProbeSites |-> 0]
    /\ root_in = <<>>
    /\ extra_slices = <<>>
    /\ mesh_in = <<>> /\ ipath = 0 /\ its = <<>> /\ prev_strip = <<>> /\ rings = <<>> /\ strip_walk = <<>>
    /\ elements_with_link_down = <<>>
    /\ linear_data_layers = Push0(<<>>, 0)
    /\ map_downwards_old = <<>>
    /\ lin_layer_idx = 0
    /\ volumes_log = NoVolumeCalls
    /\ strip_calls = <<>>
    /\ merged = <<>>
    /\ pc = "lin_loop"
    /\ cancel_when = [pc |-> "never", passes |-> 0, pass_over |-> FALSE, num_moved |-> 0]
    /\ layer_collision_cache = <<>> /\ cache_layer = 0 /\ collision_spheres = <<>> /\ position0 = <<>>
    /\ iter = 0 /\ num_moved = 0 /\ pending = {}
    /\ volumes_cleared = FALSE /\ cursor = <<>> /\ trees = <<>> /\ visited = <<>>
    /\ branch_cursor = <<>> /\ tree_pending = {} /\ slices = <<>> /\ layer_pending = {}
    /\ intermediate_layers = <<>> /\ bottom_contacts = <<>> /\ layer_storage = <<>>

\* One iteration of the loop of lines 600-634.
LineariseLayer ==
    /\ pc = "lin_loop"
    /\ lin_layer_idx < Size(move_bounds)
    /\ LET old == SortByFirst(map_downwards_old)
           st  == LineariseElems([ewld |-> elements_with_link_down, new |-> <<>>], move_bounds, old,
                                 lin_layer_idx, 0)
       IN  /\ elements_with_link_down' = st.ewld
           /\ map_downwards_old' = st.new
           /\ linear_data_layers' = Push0(linear_data_layers, OffsetAfter(st.ewld, move_bounds[lin_layer_idx]))
    /\ lin_layer_idx' = lin_layer_idx + 1
    /\ UNCHANGED <<move_bounds, pc, raised_at, probes, volumes_log, strip_calls, merged, inVars, rootVars, meshVars, cancelVars, solverVars,
                   extractVars, sliceVars, outVars>>

\* The loop condition of line 600 fails.
LineariseEnd ==
    /\ pc = "lin_loop"
    /\ ~(lin_layer_idx < Size(move_bounds))
    /\ pc' = "lin_done"
    /\ UNCHANGED <<move_bounds, raised_at, probes, inVars, rootVars, meshVars, auxVars, cancelVars, linVars,
                   solverVars, extractVars, sliceVars, outVars>>

NextLin == LineariseLayer \/ LineariseEnd

SpecLin == InitLin /\ [][NextLin]_vars

\* ------------------------------------------------------- the merge alone
\* Lines 790-793 and 872-909 for a tree that branches are merged into one
\* after the other, over the slices a branch can bring: where they begin and
\* which of them are empty.
MaxMerges     == 3    \* most branches of the tree
MaxMergeLayer == 1    \* highest layer_begin of a branch

\* The slices of a branch as slice_mesh and the root handling leave them
\* (TRUE for a non-empty one) and the length of its bottom_contacts: none, or
\* one for every slice; a branch has bottom contacts only if its first slice
\* is not empty.
MergeShapes ==
    {[nonempty |-> sh, contacts |-> c] :
        sh \in {<<TRUE>>, <<TRUE, TRUE>>, <<FALSE, TRUE>>, <<TRUE, FALSE>>, <<FALSE>>}, c \in 0 .. 2}

\* lines 790-793, 872-876 for the n-th branch: its slices from layer
\* layer_begin0 on, every polygon and contact naming the branch and the
\* layer it was made for.
SlicedBranch(n, layer_begin0, shape) ==
    LET slices0   == [j \in DOMAIN shape.nonempty |->
                         IF shape.nonempty[j] THEN {<<n, layer_begin0 + j - 1>>} ELSE {}]
        nonempty  == {j \in DOMAIN slices0 : slices0[j] # {}}
        num_empty == IF slices0[1] # {} THEN 0
                     ELSE IF nonempty = {} THEN Len(slices0) ELSE SetMin(nonempty) - 1
        slices1   == DropTrailingEmpty(slices0)
    IN  [ slices          |-> slices1,
          bottom_contacts |-> [k \in 1 .. shape.contacts |-> {<<n, layer_begin0 + k - 1>>}],
          num_empty       |-> num_empty,
          layer_begin     |-> layer_begin0 + num_empty,
          layer_end       |-> layer_begin0 + Len(slices1) ]

MergeInputs(n) ==
    {SlicedBranch(n, lb, sh) :
        lb \in 0 .. MaxMergeLayer,
        sh \in {s \in MergeShapes : s.contacts \in {0, Len(s.nonempty)} /\ (s.contacts > 0 => s.nonempty[1])}}

InitMerge ==
    /\ move_bounds = <<>>
    /\ move_bounds_in = <<>>
    /\ lines = <<>>
    /\ top_contacts = <<>>
    /\ collision = <<>>
    /\ placeable_areas = <<>>
    /\ cancel = FALSE
    /\ raised_at = "none"
    /\ probes = [site \in ProbeSites |-> 0]
    /\ root_in = <<>>
    /\ extra_slices = <<>>
    /\ mesh_in = <<>> /\ ipath = 0 /\ its = <<>> /\ prev_strip = <<>> /\ rings = <<>> /\ strip_walk = <<>>
    /\ map_downwards_old = <<>> /\ lin_layer_idx = 0 /\ volumes_log = NoVolumeCalls /\ strip_calls = <<>>
    /\ merged = <<>>
    /\ pc = "merge"
    /\ cancel_when = [pc |-> "never", passes |-> 0, pass_over |-> FALSE, num_moved |-> 0]
    /\ elements_with_link_down = <<>> /\ linear_data_layers = <<>>
    /\ layer_collision_cache = <<>> /\ cache_layer = 0 /\ collision_spheres = <<>> /\ position0 = <<>>
    /\ iter = 0 /\ num_moved = 0 /\ pending = {}
    /\ volumes_cleared = FALSE /\ cursor = <<>> /\ trees = <<Tree(<<>>)>> /\ visited = <<>>
    /\ branch_cursor = <<>> /\ tree_pending = {} /\ slices = <<>> /\ layer_pending = {}
    /\ intermediate_layers = <<>> /\ bottom_contacts = <<>> /\ layer_storage = <<>>

\* One iteration of the loop of line 768 from line 872 on: the next branch
\* is merged into the tree.
MergeNext ==
    /\ pc = "merge"
    /\ Len(merged) < MaxMerges
    /\ \E bs \in MergeInputs(Len(merged) + 1) :
           /\ trees' = <<MergeBranch(trees[1], bs)>>
           /\ merged' = Append(merged, [bs |-> bs, at |-> MergeWrites(trees[1], bs), first_layer_id |-> trees[1].first_layer_id])
    /\ UNCHANGED <<move_bounds, pc, raised_at, probes, inVars, rootVars, meshVars, map_downwards_old, lin_layer_idx,
                   volumes_log, strip_calls, cancelVars, linVars, solverVars, volumes_cleared, cursor, visited,
                   sliceVars, outVars>>

NextMerge == MergeNext

SpecMerge == InitMerge /\ [][NextMerge]_vars

\* ------------------------------------------------------------- properties
SolverPcs     == {"pass", "writeback"}
PostSolverPcs == {"clear_volumes", "extract", "slice", "union", "finalise", "done"}
SpheresBuilt  ==
    pc \in SolverPcs \cup PostSolverPcs \/ (pc = "cancelled" /\ raised_at \notin {"linearise", "solver_init", "cache"})
\* The solver returned normally.
SolverReturned == pc \in PostSolverPcs \/ (pc = "cancelled" /\ raised_at \in {"slice", "union", "finalise"})

\* The element of sphere n, as passed in, has no parents, or has no child link
\* and lies above layer 0.
LockedElement(n) ==
    LET element == ElementOf(move_bounds_in, elements_with_link_down[n])
    IN  element.parents = <<>> \/ (elements_with_link_down[n].child = -1 /\ element.layer_idx > 0)

\* The depth by which sphere n, put at position p, penetrates the outlines of
\* the layers of its window; lowest_depth if it touches none.
Penetration(n, p) ==
    ScanLayers([collision_spheres[n] EXCEPT !.position = p], layer_collision_cache,
               collision_spheres[n].layer_begin, [depth |-> lowest_depth, coll |-> <<0, 0, 0>>]).depth

PositionsUnchanged ==
    \A l \in DOMAIN move_bounds : \A i \in DOMAIN move_bounds[l] :
        move_bounds[l][i].result_on_layer = move_bounds_in[l][i].result_on_layer
OutputsUntouched ==
    /\ layer_storage = <<>>
    /\ \A l \in DOMAIN intermediate_layers : intermediate_layers[l] = -1
    /\ \A l \in DOMAIN bottom_contacts : bottom_contacts[l] = -1

\* C1: a sphere whose element has no parents, or has no child link and lies
\* above layer 0, has after every step of every pass the position it had at
\* initialisation.
C1_LockedSpheresKeepPosition ==
    SpheresBuilt =>
        \A n \in DOMAIN collision_spheres :
            LockedElement(n) => collision_spheres[n].position = position0[n]
\* C1 witness: the passes are over; an element above layer 0 that has parents
\* but no child is locked and stays where it was although it penetrates an
\* outline of its window.
C1_Witness ==
    /\ pc = "writeback" /\ iter >= 1
    /\ \E n \in DOMAIN collision_spheres :
           /\ LockedElement(n)
           /\ ElementOf(move_bounds_in, elements_with_link_down[n]).parents # <<>>
           /\ Penetration(n, collision_spheres[n].position) > EPSILON

C3_LoopTermination ==
    [][ /\ iter' <= num_iter
        /\ (pc = "pass" /\ pending = {} /\ num_moved = 0) =>
               (pending' = {} /\ (iter' # iter => pc' = "writeback"))
        /\ (pc = "pass" /\ pc' = "writeback") => (num_moved = 0 \/ iter' = num_iter) ]_vars
\* C3 witness: the loop was left after num_iter passes, the last of which
\* still counted a moved sphere.
C3_Witness == pc = "writeback" /\ iter = num_iter /\ num_moved # 0

\* C4: once the solver has returned, the element of every linear node i has
\* result_on_layer = scaled(position.xy) of sphere i, locked or not.
C4_WriteBackFidelity ==
    SolverReturned =>
        \A i \in DOMAIN elements_with_link_down :
            ElementOf(move_bounds, elements_with_link_down[i]).result_on_layer
                = scaled2(collision_spheres[i].position)
\* C4 witness: the solver has returned; there is a locked sphere, and an
\* unlocked one that ends away from where it started.
C4_Witness ==
    /\ pc = "clear_volumes"
    /\ \E i \in DOMAIN collision_spheres : collision_spheres[i].locked
    /\ \E i \in Unlocked(collision_spheres) : collision_spheres[i].position # position0[i]

\* What the worker of sphere n computes from the state at the start of the pass.
PassStart == [m \in DOMAIN collision_spheres |->
                 [collision_spheres[m] EXCEPT !.position = collision_spheres[m].prev_position]]
\* C5: in whatever order the workers of a pass have run so far, the position
\* of every sphere already processed is the one computed from the positions
\* at the start of the pass alone.
C5_PassOrderIndependent ==
    pc = "pass" =>
        \A n \in Unlocked(collision_spheres) \ pending :
            collision_spheres[n].position
                = SphereStep(PassStart, move_bounds, linear_data_layers, layer_collision_cache, n).position
\* C5 witness: a pass is over in which a sphere and its child sphere were both moved.
C5_Witness ==
    /\ pc = "pass" /\ pending = {}
    /\ \E n \in Unlocked(collision_spheres) :
           /\ collision_spheres[n].element_below_id # -1
           /\ collision_spheres[n].position # collision_spheres[n].prev_position
           /\ LET b == linear_data_layers[collision_spheres[n].layer - 1] + collision_spheres[n].element_below_id
              IN  collision_spheres[b].position # collision_spheres[b].prev_position

\* The probe started to raise inside the pass loop, after the first pass.
RaisedAfterFirstPass == cancel /\ cancel_when.pc = "pass" /\ cancel_when.passes >= 1
\* When the probe started to raise, an iteration of a pass was still to come.
IterationAhead ==
    \/ ~cancel_when.pass_over
    \/ (cancel_when.num_moved > 0 /\ cancel_when.passes < num_iter)

\* C6 as stated: if the probe starts to raise after the first pass has
\* completed, no position is written back, for every input.
C6_NoWriteBackAfterCancel == RaisedAfterFirstPass => PositionsUnchanged
\* C6 amended: if the probe starts to raise after the first pass has completed
\* and while an iteration of a pass is still to come (the pass is not over, or
\* it counted a moved sphere and was not pass number num_iter), the solver is
\* left by the exception and no position is written back.
C6_NoWriteBackWhenPassAhead ==
    (RaisedAfterFirstPass /\ IterationAhead) => (PositionsUnchanged /\ pc \in {"pass", "cancelled"})
\* C6 witness: the probe started to raise between two passes and the run was cancelled.
C6_Witness ==
    /\ pc = "cancelled" /\ raised_at = "pass"
    /\ RaisedAfterFirstPass /\ cancel_when.pass_over /\ cancel_when.num_moved > 0

\* C7 as stated: whenever the probe has raised, no output entry is assigned,
\* no layer is allocated and no element position is changed.
C7_NoPartialOutput == pc = "cancelled" => (OutputsUntouched /\ PositionsUnchanged)
\* C7 amended: if the probe raises before the solver writes back, no element
\* position is changed; if it raises before the last loop (finalisation), no
\* output entry is assigned and no layer is allocated.
C7_NoPartialOutputBefore ==
    pc = "cancelled" =>
        /\ raised_at \in {"linearise", "solver_init", "cache", "spheres", "pass"} => PositionsUnchanged
        /\ raised_at # "finalise" => OutputsUntouched
\* C7 witness: the probe raised while the branches were sliced or unioned:
\* the positions are the solver's, the outputs are untouched.
C7_Witness ==
    /\ pc = "cancelled" /\ raised_at \in {"slice", "union"}
    /\ ~PositionsUnchanged /\ OutputsUntouched

AllBranches == UNION {Range(visited[v].branches) : v \in DOMAIN visited}

\* C8: every branch has a path of at least two elements, each one layer above
\* the one before it.
C8_PathContinuity ==
    \A b \in AllBranches :
        /\ Len(b.path) >= 2
        /\ \A i \in 1 .. Len(b.path) - 1 :
               Deref(move_bounds, b.path[i + 1]).layer_idx = Deref(move_bounds, b.path[i]).layer_idx + 1
\* C8 witness: a branch whose walk went past its first parent.
C8_Witness == \E b \in AllBranches : Len(b.path) >= 3

\* C9 as stated: in every tree exactly one branch has has_root, the first one.
C9_OnlyFirstBranchHasRoot ==
    \A v \in DOMAIN visited :
        \A k \in DOMAIN visited[v].branches : visited[v].branches[k].has_root <=> k = 1
\* C9 amended: in every tree the branches with has_root are exactly the
\* branches that start at the element the tree was started from; there is one
\* for every parent of that element.
C9_HasRootIffStartsAtRoot ==
    \A v \in DOMAIN visited :
        \A k \in DOMAIN visited[v].branches :
            visited[v].branches[k].has_root <=> visited[v].branches[k].path[1] = visited[v].start
\* C9 witness: a tree with two branches that have has_root and one that has not.
C9_Witness ==
    \E v \in DOMAIN visited :
        /\ \E j, k \in DOMAIN visited[v].branches :
               j # k /\ visited[v].branches[j].has_root /\ visited[v].branches[k].has_root
        /\ \E k \in DOMAIN visited[v].branches : ~visited[v].branches[k].has_root

\* The tree built from start element of visited[v] is in trees.
InTrees(v) == \E t \in DOMAIN trees : trees[t].branches = visited[v].branches
\* C10: a tree is in trees if and only if its start element is lost or
\* verylost, and the elements its traversal marked stay marked.
C10_KeptIffLost ==
    \A v \in DOMAIN visited :
        /\ InTrees(v) <=> (Deref(move_bounds, visited[v].start).lost \/ Deref(move_bounds, visited[v].start).verylost)
        /\ \A k \in DOMAIN visited[v].branches :
               \A e \in Range(visited[v].branches[k].path) : Deref(move_bounds, e).marked
\* C10 witness: at the end one tree was kept for verylost alone and another was removed.
C10_Witness ==
    /\ pc = "done"
    /\ \E v \in DOMAIN visited :
           LET start == Deref(move_bounds, visited[v].start)
           IN  InTrees(v) /\ start.verylost /\ ~start.lost
    /\ \E v \in DOMAIN visited : ~InTrees(v)

\* The run started from the two elements at the origin under the outline y = 0.2 mm.
OriginRun == move_bounds_in = OriginChain /\ lines = OneLine(2, 1, OriginLine)
\* C11 as stated: for the two elements at the origin and the layer-1 segment
\* from (-2, 0.2) to (2, 0.2), after the solver the Y coordinate of element 1
\* is strictly negative and its XY position differs from (0, 0).
C11_UpperElementPushedAway ==
    (OriginRun /\ SolverReturned) =>
        /\ move_bounds[1][0].result_on_layer[2] < 0
        /\ move_bounds[1][0].result_on_layer # <<0, 0>>
\* C11: for the same input, element 1 (a tip, locked) is still at (0, 0) after
\* the solver, and it is element 0 (the root on layer 0, not locked) whose Y
\* coordinate is strictly negative and whose XY position differs from (0, 0).
C11_LowerElementPushedAway ==
    (OriginRun /\ SolverReturned) =>
        /\ move_bounds[1][0].result_on_layer = <<0, 0>>
        /\ move_bounds[0][0].result_on_layer[2] < 0
        /\ move_bounds[0][0].result_on_layer # <<0, 0>>
\* C11 witness: the solver returned for that input after the root collided
\* with the outline.
C11_Witness ==
    /\ OriginRun /\ SolverReturned
    /\ \E n \in DOMAIN collision_spheres :
           /\ collision_spheres[n].layer = 0 /\ ~collision_spheres[n].locked
           /\ collision_spheres[n].last_collision_depth > 0

\* The number of parents of path element i of a branch.
NumParents(b, i) == Len(Deref(move_bounds, b.path[i]).parents)
\* C19: in every branch the extractor built, every path element that is
\* neither the first nor the last has exactly one parent, and the last path
\* element has no parent or at least two.
C19_InteriorSingleParent ==
    \A b \in AllBranches :
        /\ \A i \in 2 .. Len(b.path) - 1 : NumParents(b, i) = 1
        /\ NumParents(b, Len(b.path)) # 1
\* C19 witness: a tree with a branch that ends on a branching point and a
\* branch that ends on a tip, or a branch with an interior element.
C19_Witness ==
    \/ \E a, b \in AllBranches : NumParents(a, Len(a.path)) >= 2 /\ NumParents(b, Len(b.path)) = 0
    \/ \E b \in AllBranches : Len(b.path) >= 3 /\ NumParents(b, Len(b.path)) = 0

\* The branches of traversal v that start at element e: one for every parent
\* of e each time visit_recursive is called for e.
BranchesFrom(v, e) == {k \in DOMAIN visited[v].branches : visited[v].branches[k].path[1] = e}
\* C20: has_tip of a branch is true if and only if its last path element has
\* no parents; when the last element has two or more parents has_tip is false
\* and visit_recursive ran for that element exactly once (it started one
\* branch per parent); a traversal from a layer-0 element with two parents
\* that have no parents yields exactly two branches, both with has_tip.
C20_HasTipIffNoParents ==
    \A v \in DOMAIN visited :
        LET bs    == visited[v].branches
            start == Deref(move_bounds, visited[v].start)
        IN  /\ \A k \in DOMAIN bs :
                   LET last == bs[k].path[Len(bs[k].path)]
                       np   == Len(Deref(move_bounds, last).parents)
                   IN  /\ bs[k].has_tip <=> np = 0
                       /\ np >= 2 => ~bs[k].has_tip /\ Cardinality(BranchesFrom(v, last)) = np
            /\ ( /\ visited[v].start[1] = 0
                 /\ Len(start.parents) = 2
                 /\ \A j \in 1 .. 2 : Deref(move_bounds, <<1, start.parents[j]>>).parents = <<>> )
               => Len(bs) = 2 /\ \A k \in 1 .. 2 : bs[k].has_tip
\* C20 witness: a traversal with a branch that ends on a branching point,
\* or a traversal from a layer-0 element with two tips as parents.
C20_Witness ==
    \E v \in DOMAIN visited :
        \/ \E k \in DOMAIN visited[v].branches : ~visited[v].branches[k].has_tip
        \/ /\ visited[v].start[1] = 0
           /\ Len(Deref(move_bounds, visited[v].start).parents) = 2
           /\ Len(visited[v].branches) = 2

\* move_bounds as passed in holds no element: no layers, or empty layers only.
EmptyInput == \A l \in DOMAIN move_bounds_in : DOMAIN move_bounds_in[l] = {}
\* C15: when move_bounds holds no element, the run has no tree at any time,
\* the flat slice array has zero layers and no layer is left to finalise (the
\* run returns unless the probe raises on a cancellation request), and
\* nothing is allocated for or assigned to intermediate_layers or
\* bottom_contacts.
C15_EmptyInputNoOutput ==
    EmptyInput =>
        /\ trees = <<>> /\ visited = <<>>
        /\ slices = <<>> /\ layer_pending = {}
        /\ OutputsUntouched
        /\ pc = "cancelled" => cancel
\* C15 witness: the run over two or more empty layers has returned.
C15_Witness == EmptyInput /\ Size(move_bounds_in) >= 2 /\ pc = "done"

\* The branches of the trees that were kept.
KeptBranches == UNION {Range(trees[t].branches) : t \in DOMAIN trees}
\* The slice of a branch at layer i, and the bottom contact that goes with it.
BranchSliceAt(b, i) ==
    LET bs == BranchSlices(move_bounds, b)
        j  == i - (bs.layer_begin - bs.num_empty)
    IN  IF j + 1 \in DOMAIN bs.slices THEN bs.slices[j + 1] ELSE {}
BranchContactAt(b, i) ==
    LET bs == BranchSlices(move_bounds, b)
        j  == i - (bs.layer_begin - bs.num_empty)
    IN  IF j + 1 \in DOMAIN bs.slices /\ bs.slices[j + 1] # {} /\ j + 1 \in DOMAIN bs.bottom_contacts
        THEN bs.bottom_contacts[j + 1] ELSE {}
\* The flat slices that are not yet handed to the finalisation of their layer.
Unfinalised == {i \in DOMAIN slices : i \in layer_pending \/ i >= Size(move_bounds)}
\* C14: once the branch slices are merged into their trees, the trees are
\* unioned and merged into the flat array (and before a layer is finalised,
\* which does not touch the slices), the polygons of every layer are
\* the union of the non-empty slices all branches of all kept trees have at
\* that layer, and its bottom_contacts are the union of the bottom contacts
\* of those slices; a layer beyond the flat array has no such slice.
C14_FlatSlicesAreUnionOfBranchSlices ==
    pc = "finalise" /\ layer_pending = 0 .. Min(Size(move_bounds), Size(slices)) - 1 =>
        /\ \A i \in Unfinalised :
               /\ slices[i].polygons = UNION {BranchSliceAt(b, i) : b \in KeptBranches}
               /\ slices[i].bottom_contacts = UNION {BranchContactAt(b, i) : b \in KeptBranches}
        /\ \A i \in (-MaxLayers .. 2 * MaxLayers) \ DOMAIN slices :
               \A b \in KeptBranches : BranchSliceAt(b, i) = {}
\* C14 witness: a layer that two branches reach with different polygons, and
\* a layer with a bottom contact, both still to be finalised.
C14_Witness ==
    /\ pc = "finalise"
    /\ \E i \in Unfinalised : \E a, b \in KeptBranches :
           BranchSliceAt(a, i) # {} /\ BranchSliceAt(b, i) # {} /\ BranchSliceAt(a, i) # BranchSliceAt(b, i)
    /\ \E i \in Unfinalised : slices[i].bottom_contacts # {}

\* The layers of move_bounds that hold elements, and the layers finalised so far.
PopulatedLayers == {l \in DOMAIN move_bounds : DOMAIN move_bounds[l] # {}}
FinalisedLayers == (0 .. Min(Size(move_bounds), Size(slices)) - 1) \ layer_pending
\* The probe was called once after each populated layer of the cache built so
\* far, and once for each layer finalised so far.
ProbedPerCacheLayer ==
    /\ pc = "cache" => probes["cache"] = Cardinality({l \in PopulatedLayers : l < cache_layer})
    /\ pc \in SolverPcs \cup PostSolverPcs => probes["cache"] = Cardinality(PopulatedLayers)
ProbedPerFinalisedLayer ==
    pc \in {"finalise", "done"} => probes["finalise"] = Cardinality(FinalisedLayers)
\* C18 as stated: in every solver pass the probe is called at least once,
\* however many spheres are locked; it is also called after each populated
\* collision layer is built and once per per-layer finalisation.
C18_ProbedInEveryPass ==
    /\ (pc = "pass" /\ pending = {}) => probes["pass"] >= 1
    /\ ProbedPerCacheLayer
    /\ ProbedPerFinalisedLayer
\* C18: in a solver pass the probe is called once for every unlocked sphere the
\* pass has processed, and for no other reason: a pass in which every sphere is
\* locked ends without a call; the probe is also called after each populated
\* collision layer is built and once per per-layer finalisation.
C18_ProbedPerUnlockedSphere ==
    /\ (pc = "pass" \/ (pc = "cancelled" /\ raised_at = "pass")) =>
           probes["pass"] = Cardinality(Unlocked(collision_spheres) \ pending)
    /\ ProbedPerCacheLayer
    /\ ProbedPerFinalisedLayer
\* C18 witness: a run with spheres, all of them locked, has returned; its one
\* pass called the probe zero times, and the probe was called for a populated
\* cache layer and for a finalised layer.
C18_Witness ==
    /\ pc = "done"
    /\ collision_spheres # <<>> /\ Unlocked(collision_spheres) = {}
    /\ iter = 1 /\ probes["pass"] = 0
    /\ probes["cache"] >= 1 /\ probes["finalise"] >= 1

\* The polygons of the layer an output vector holds for layer l (empty for nullptr).
PolygonsOf(out, l) == IF out[l] = -1 THEN {} ELSE layer_storage[out[l]].polygons
TopPolygons(l) ==
    IF top_contacts = <<>> \/ top_contacts[l] = <<>> THEN {} ELSE top_contacts[l][1].polygons
\* C17: in every layer the polygons of the Base layer share no point with the
\* polygons of the BottomContact layer of that layer nor with those of its
\* top contact, and every layer that was allocated has polygons.
C17_BaseDisjointFromContacts ==
    /\ \A l \in DOMAIN intermediate_layers :
           /\ PolygonsOf(intermediate_layers, l) \cap PolygonsOf(bottom_contacts, l) = {}
           /\ PolygonsOf(intermediate_layers, l) \cap TopPolygons(l) = {}
           /\ intermediate_layers[l] # -1 =>
                  /\ layer_storage[intermediate_layers[l]].layer_type = "Base"
                  /\ layer_storage[intermediate_layers[l]].layer_idx = l
           /\ bottom_contacts[l] # -1 =>
                  /\ layer_storage[bottom_contacts[l]].layer_type = "BottomContact"
                  /\ layer_storage[bottom_contacts[l]].layer_idx = l
    /\ \A k \in DOMAIN layer_storage : layer_storage[k].polygons # {}
\* C17 witness: the run has returned with a Base and a BottomContact layer on
\* one layer, and with a Base layer on a layer whose top contact has polygons.
C17_Witness ==
    /\ pc = "done"
    /\ \E l \in DOMAIN intermediate_layers : intermediate_layers[l] # -1 /\ bottom_contacts[l] # -1
    /\ \E l \in DOMAIN intermediate_layers : intermediate_layers[l] # -1 /\ TopPolygons(l) # {}

\* The root slice less the collision of the first k layers below layer_begin.
RootRest(k) ==
    root_in.front_slice \ UNION {collision[root_in.layer_begin - j] : j \in 1 .. k}
\* The branch propagates its root: it has has_root and a first slice, rests
\* on the model non-graciously and starts above layer 0.
RootPropagates ==
    /\ pc = "root_done"
    /\ root_in.has_root /\ root_in.front_slice # {}
    /\ ~root_in.front.to_model_gracious /\ root_in.layer_begin > 0
\* The number of layers the walk may reach: down to layer 0 for a verylost
\* root, else min(layer_begin, 5 * bottom_radius / layer_height).
RootLayersMax ==
    IF root_in.front.verylost THEN root_in.layer_begin
    ELSE Min(root_in.layer_begin, (5 * root_in.front.radius) \div layer_height)
StripTotal == (strip_walk.iend1 - strip_walk.ibegin1) + (strip_walk.iend2 - strip_walk.ibegin2)

RingEdges(ibegin, iend) == {{x, update_2(x, ibegin, iend)} : x \in ibegin .. iend - 1}

TrianglesWith(edge) ==
    {k \in DOMAIN its.indices : edge \subseteq {its.indices[k][1], its.indices[k][2], its.indices[k][3]}}

\* C13: triangulate_strip between a ring A of n1 >= 3 and a ring B of
\* n2 >= 3 vertices terminates (every iteration pushes one triangle and takes
\* one off a count that never goes below zero) with exactly n1 + n2
\* triangles, whatever the distances decide; every ring edge of A and every
\* ring edge of B, the wrap-around ones included, is in exactly one triangle,
\* and the walk ends on the pair (ibegin1, istart2) it started from.
C13_StripClosed ==
    pc \in {"strip", "strip_done"} =>
        /\ strip_walk.n1 >= 0 /\ strip_walk.n2 >= 0
        /\ Len(its.indices) + strip_walk.n1 + strip_walk.n2 = StripTotal
        /\ pc = "strip_done" =>
              /\ Len(its.indices) = StripTotal
              /\ \A edge \in RingEdges(strip_walk.ibegin1, strip_walk.iend1)
                             \cup RingEdges(strip_walk.ibegin2, strip_walk.iend2) :
                     Cardinality(TrianglesWith(edge)) = 1
              /\ strip_walk.u = strip_walk.ibegin1
              /\ strip_walk.v = strip_walk.istart2

\* A finished strip between a ring of 3 and a ring of 4 vertices that starts
\* inside ring 2, so both walks wrap around, and mixes the two diagonals.
C13_Witness ==
    /\ pc = "strip_done"
    /\ strip_walk.iend1 - strip_walk.ibegin1 = 3
    /\ strip_walk.iend2 - strip_walk.ibegin2 = 4
    /\ strip_walk.istart2 > strip_walk.ibegin2
    /\ its.indices[1][2] >= strip_walk.ibegin2
    /\ its.indices[2][2] < strip_walk.ibegin2
    /\ its.indices[7][2] >= strip_walk.ibegin2

\* ---- C12
RECURSIVE RingSizes(_)
RingSizes(rs) == IF rs = <<>> THEN 0 ELSE (rs[1][2] - rs[1][1]) + RingSizes(Tail(rs))

IndicesInRange ==
    \A k \in DOMAIN its.indices : \A c \in 1 .. 3 : its.indices[k][c] \in 0 .. its.nv - 1

C12_ClosedWhenBottomHasCircle ==
    pc \in {"extrude", "extruded"} =>
        /\ pc = "extruded" => its.nv = 2 + RingSizes(rings)
        /\ mesh_in.nsteps_bottom >= 2 => IndicesInRange
        /\ pc = "extruded" =>
              Len(rings) = (mesh_in.nsteps_bottom - 1) + (mesh_in.size - 2) + mesh_in.nsteps_top

\* A path of three elements with two circles below, one in the middle and
\* two above, of different sizes, extruded to its end.
C12_ClosedWitness ==
    /\ pc = "extruded"
    /\ mesh_in.size = 3 /\ mesh_in.nsteps_bottom = 3 /\ mesh_in.nsteps_top = 2
    /\ mesh_in.circle[0] # mesh_in.circle[1]
    /\ Len(rings) = 5
    /\ IndicesInRange

NodeAt(k, i) == elements_with_link_down[linear_data_layers[k] + i]

\* C21: after linearisation linear_data_layers has move_bounds.size() + 1
\* entries, starts with 0 and grows from layer k to k + 1 by the number of
\* elements of layer k (so it never decreases); the node at
\* linear_data_layers[k] + i refers to element i of layer k. During the loop
\* the same holds of the layers done so far, and the result is what
\* LinearDataLayers gives.
C21_LayerOffsets ==
    pc \in {"lin_loop", "lin_done"} =>
        /\ DOMAIN linear_data_layers = 0 .. lin_layer_idx
        /\ linear_data_layers[0] = 0
        /\ \A k \in 0 .. lin_layer_idx - 1 :
               /\ linear_data_layers[k + 1] - linear_data_layers[k] = Size(move_bounds[k])
               /\ \A i \in Ids(move_bounds[k]) : NodeAt(k, i).layer = k /\ NodeAt(k, i).idx = i
        /\ DOMAIN elements_with_link_down = 0 .. linear_data_layers[lin_layer_idx] - 1
        /\ pc = "lin_done" =>
              /\ Size(linear_data_layers) = Size(move_bounds) + 1
              /\ linear_data_layers = LinearDataLayers(move_bounds)

\* Three layers linearised, the middle one with two elements.
C21_Witness ==
    /\ pc = "lin_done"
    /\ Size(move_bounds) = 3
    /\ Size(move_bounds[0]) = 1 /\ Size(move_bounds[1]) = 2 /\ Size(move_bounds[2]) = 0
    /\ linear_data_layers[3] = 3

\* ---- C22
\* Element c of layer L - 1 lists element e of layer L among its parents.
ListsAsParent(L, c, e) == c \in Ids(move_bounds[L - 1]) /\ e \in Range(move_bounds[L - 1][c].parents)

\* C22: after linearisation (every element being the parent of at most one
\* element of the layer below) the node of element e of layer L has a child
\* link c # -1 exactly when L > 0, e has result_on_layer_is_set and element
\* c of layer L - 1 lists e among its parents; the nodes of layer 0 have
\* child link -1. It is what ElementsWithLinkDown gives.
C22_ChildLinks ==
    pc = "lin_done" =>
        /\ \A L \in Ids(move_bounds) : \A e \in Ids(move_bounds[L]) :
               LET c == NodeAt(L, e).child
               IN  /\ c # -1 => L > 0 /\ move_bounds[L][e].result_on_layer_is_set /\ ListsAsParent(L, c, e)
                   /\ \A c2 \in -1 .. MaxElems :
                          L > 0 /\ move_bounds[L][e].result_on_layer_is_set /\ ListsAsParent(L, c2, e) => c = c2
                   /\ L = 0 => c = -1
        /\ elements_with_link_down = ElementsWithLinkDown(move_bounds)

\* An element with a result linked to its child, and an element without a
\* result that a lower element lists as parent and that has no child link.
C22_Witness ==
    /\ pc = "lin_done"
    /\ \E L \in Ids(move_bounds) : \E e \in Ids(move_bounds[L]) : NodeAt(L, e).child # -1
    /\ \E L \in Ids(move_bounds) : \E e \in Ids(move_bounds[L]) :
           /\ L > 0 /\ ~move_bounds[L][e].result_on_layer_is_set
           /\ \E c \in Ids(move_bounds[L - 1]) : ListsAsParent(L, c, e)
           /\ NodeAt(L, e).child = -1

\* ---- C23
\* C23: volumes.clear_all_but_object_collision() is called exactly once,
\* when the solver has returned with all positions written back and before
\* any tree is extracted or sliced; it is not called when the probe raises
\* in or before the solver; every query made on volumes after the call has
\* radius 0.
C23_VolumesClearedOnce ==
    pc \notin {"lin_loop", "lin_done"} =>
        /\ volumes_log.clear_calls = IF SolverReturned /\ pc # "clear_volumes" THEN 1 ELSE 0
        /\ volumes_cleared <=> volumes_log.clear_calls = 1
        /\ pc = "cancelled" /\ raised_at \in {"linearise", "solver_init", "cache", "spheres", "pass"}
               => volumes_log.clear_calls = 0
        /\ pc = "clear_volumes" =>
               \A i \in DOMAIN elements_with_link_down :
                   ElementOf(move_bounds, elements_with_link_down[i]).result_on_layer
                       = scaled2(collision_spheres[i].position)
        /\ volumes_log.clear_calls = 0 =>
               /\ trees = <<>> /\ visited = <<>> /\ slices = <<>>
               /\ \A q \in volumes_log.queries : q.fn = "get_collision_lower_bound_area"
        /\ \A q \in volumes_log.queries : q.cleared => q.radius = 0

\* The pipeline has returned: the caches were cleared once, after the query
\* of the solver and before the queries of the slicing, among them one for
\* the placeable areas under a root.
C23_Witness ==
    /\ pc = "done"
    /\ volumes_log.clear_calls = 1
    /\ \E q \in volumes_log.queries : ~q.cleared
    /\ \E q \in volumes_log.queries : q.cleared /\ q.fn = "getCollision"
    /\ \E q \in volumes_log.queries : q.cleared /\ q.fn = "getPlaceableAreas"

\* ---- C24
\* C24: once the spheres are initialised, every sphere has
\* 0 <= layer_begin <= layer_idx < layer_end <= the number of cached
\* collision layers, so the scan from layer_begin up to layer_end reaches
\* layer_end, passes the sphere's own layer and reads cached layers only.
C24_SphereWindow ==
    SpheresBuilt =>
        \A n \in DOMAIN collision_spheres :
            LET s == collision_spheres[n]
            IN  /\ s.layer = elements_with_link_down[n].layer
                /\ 0 <= s.layer_begin
                /\ s.layer_begin <= s.layer
                /\ s.layer < s.layer_end
                /\ s.layer_end <= Size(layer_collision_cache)
                /\ \A layer_id \in s.layer_begin .. s.layer_end - 1 : layer_id \in DOMAIN layer_collision_cache

\* An unlocked sphere below the topmost layer has been scanned in a pass; its
\* window is cut at the end of the cache and begins below its own layer.
C24_Witness ==
    /\ pc = "writeback"
    /\ \E n \in Unlocked(collision_spheres) :
           LET s == collision_spheres[n]
           IN  /\ s.layer_begin < s.layer
               /\ s.layer_end = Size(layer_collision_cache)
               /\ s.layer_end > s.layer + 1

\* ---- C25
\* C25: every call of triangulate_strip in extrude_branch receives as its
\* first ring a range discretize_circle returned earlier for the same mesh,
\* for every path of two or more elements and every step count of the caps,
\* a bottom cap of one step included.
C25_FirstRingEmitted ==
    \A k \in DOMAIN strip_calls : strip_calls[k].emitted

\* With a bottom cap that emits a circle (nsteps >= 2 at line 192) every
\* call gets the ring emitted just before: the k-th call gets the k-th ring.
C25_EmittedWhenBottomHasCircle ==
    mesh_in # <<>> /\ mesh_in.nsteps_bottom >= 2 =>
        /\ Len(strip_calls) = Max(0, Len(rings) - 1)
        /\ \A k \in DOMAIN strip_calls :
               strip_calls[k].emitted /\ strip_calls[k].first = rings[k]

\* The bottom cap has one step and emits no circle: the first call of
\* triangulate_strip got the prev_strip nothing had assigned.
C25_Witness ==
    /\ pc = "extruded"
    /\ mesh_in.nsteps_bottom = 1
    /\ Len(strip_calls) = Len(rings)
    /\ ~strip_calls[1].emitted
    /\ \A k \in 2 .. Len(strip_calls) : strip_calls[k].emitted /\ strip_calls[k].first = rings[k - 1]

\* The bottom cap has three steps: two circles, one strip between them, and
\* the strips up to the top, each from the ring before.
C25_EmittedWitness ==
    /\ pc = "extruded"
    /\ mesh_in.nsteps_bottom = 3
    /\ mesh_in.size = 3
    /\ Len(strip_calls) >= 3
    /\ \A k \in DOMAIN strip_calls : strip_calls[k].emitted

\* ---- C26
\* The layers a bottom contact was emitted for by the loop of lines 845-848:
\* those of the extra slices but the lowest.
RootContactLayers ==
    IF root_in.has_root /\ ~root_in.front.to_model_gracious /\ support_floor_layers > 0 /\ Len(extra_slices) >= 2
    THEN (root_in.layer_begin - Len(extra_slices) + 1) .. (root_in.layer_begin - 1)
    ELSE {}
\* bottom_extra_slices[i] is the slice of layer layer_begin - 1 - i (lines 821-827).
ExtraSliceOfLayer(L) == extra_slices[root_in.layer_begin - L]
TreeSlot(L) == trees[1].slices[L - trees[1].first_layer_id + 1]

\* C26: the bottom contact root propagation computes from the extra slice of
\* layer L and the placeable areas of layer L is merged into the tree slice
\* of layer L, the slot that holds the extra slice of layer L.
C26_ContactInSlotOfItsLayer ==
    pc = "root_merged" =>
        \A L \in RootContactLayers :
            /\ TreeSlot(L).polygons = ExtraSliceOfLayer(L)
            /\ TreeSlot(L).bottom_contacts = intersection_placeable(ExtraSliceOfLayer(L), L)

\* What the merge does: the contact of layer L is in the slot of layer L - 1,
\* and the slot of the topmost extra slice has none.
C26_ContactInSlotBelow ==
    pc = "root_merged" =>
        /\ \A L \in RootContactLayers :
               /\ TreeSlot(L).polygons = ExtraSliceOfLayer(L)
               /\ TreeSlot(L - 1).polygons = ExtraSliceOfLayer(L - 1)
               /\ TreeSlot(L - 1).bottom_contacts = intersection_placeable(ExtraSliceOfLayer(L), L)
        /\ RootContactLayers # {} =>
               /\ trees[1].first_layer_id = root_in.layer_begin - Len(extra_slices)
               /\ TreeSlot(root_in.layer_begin - 1).bottom_contacts = {}
               /\ TreeSlot(root_in.layer_begin).bottom_contacts = {}

\* A root dropped by three layers or more: the contact of a layer differs
\* from what the slot of that layer holds and is found one slot below.
C26_Witness ==
    /\ pc = "root_merged"
    /\ Len(extra_slices) >= 3
    /\ \E L \in RootContactLayers :
           /\ L < root_in.layer_begin - 1
           /\ intersection_placeable(ExtraSliceOfLayer(L), L) # {}
           /\ TreeSlot(L).bottom_contacts # intersection_placeable(ExtraSliceOfLayer(L), L)
           /\ TreeSlot(L - 1).bottom_contacts = intersection_placeable(ExtraSliceOfLayer(L), L)

\* ---- C27
\* The branches of tree t merged so far, by their index in tree.branches.
MergedInto(t) == 1 .. branch_cursor[t] - 1
\* The layers a branch of the model can have a slice at.
SliceLayers == (-3 * MaxLayers) .. (4 * MaxLayers)
\* The slice of tree t for layer i, if tree.slices reaches it.
TreeHasLayer(t, i) ==
    trees[t].first_layer_id # -1 /\ i - trees[t].first_layer_id + 1 \in DOMAIN trees[t].slices
TreeSliceAt(t, i) == trees[t].slices[i - trees[t].first_layer_id + 1]

\* C27: while branches are merged into a tree, tree.slices[k] holds the data
\* of layer first_layer_id + k: its polygons and bottom contacts are those
\* the branches merged so far have at that layer (so slices merged earlier
\* stay at their layer when the range grows), num_branches counts the
\* branches with a non-empty slice at that layer, no branch has a slice at a
\* layer outside the range, and the merge of the next branch reads and
\* writes inside slices and tree.slices, leading empty slices or not.
C27_TreeSlicesByLayer ==
    pc = "slice" =>
        \A t \in DOMAIN trees :
            /\ \A i \in SliceLayers :
                   LET at == [m \in MergedInto(t) |-> BranchSliceAt(trees[t].branches[m], i)]
                   IN  IF TreeHasLayer(t, i)
                       THEN /\ TreeSliceAt(t, i).polygons = UNION {at[m] : m \in MergedInto(t)}
                            /\ TreeSliceAt(t, i).num_branches = Cardinality({m \in MergedInto(t) : at[m] # {}})
                            /\ TreeSliceAt(t, i).bottom_contacts =
                                   UNION {BranchContactAt(trees[t].branches[m], i) : m \in MergedInto(t)}
                       ELSE \A m \in MergedInto(t) : at[m] = {}
            /\ branch_cursor[t] <= Len(trees[t].branches) =>
                   LET bs == BranchSlices(move_bounds, trees[t].branches[branch_cursor[t]])
                       mw == MergeWrites(trees[t], bs)
                   IN  \A w \in mw.writes :
                           /\ 0 <= w.dst /\ w.dst < mw.new_size
                           /\ 0 <= w.j /\ w.j < Len(bs.slices)

\* A tree of two merged branches: the second one began with an empty slice,
\* reached a layer below the first one and a layer both have a slice at.
C27_Witness ==
    /\ pc = "slice"
    /\ \E t \in DOMAIN trees :
           /\ branch_cursor[t] = 3
           /\ BranchSlices(move_bounds, trees[t].branches[2]).num_empty > 0
           /\ \E i \in SliceLayers : TreeHasLayer(t, i) /\ TreeSliceAt(t, i).num_branches = 2
           /\ \E i \in SliceLayers :
                  /\ BranchSliceAt(trees[t].branches[1], i) = {}
                  /\ BranchSliceAt(trees[t].branches[2], i) # {}
                  /\ \E k \in SliceLayers : k > i /\ BranchSliceAt(trees[t].branches[1], k) # {}

\* C27 on the merge alone: the layers a merged branch can have a slice at,
\* and one layer either side.
MergeLayers == -1 .. (MaxMergeLayer + 2)
\* The slice and the bottom contact the m-th merged
\* branch has at layer i.
MergedSliceAt(m, i) ==
    LET bs == merged[m].bs
        j  == i - (bs.layer_begin - bs.num_empty)
    IN  IF j + 1 \in DOMAIN bs.slices THEN bs.slices[j + 1] ELSE {}
MergedContactAt(m, i) ==
    LET bs == merged[m].bs
        j  == i - (bs.layer_begin - bs.num_empty)
    IN  IF j + 1 \in DOMAIN bs.slices /\ bs.slices[j + 1] # {} /\ j + 1 \in DOMAIN bs.bottom_contacts
        THEN bs.bottom_contacts[j + 1] ELSE {}

\* C27: after any sequence of merges, tree.slices[k] holds the polygons and
\* bottom contacts the merged branches have at layer first_layer_id + k and
\* nothing of another layer, num_branches counts the branches with a
\* non-empty slice at that layer, no branch has a slice outside the range,
\* and every merge read inside the slices of its branch and wrote inside
\* tree.slices, with leading empty slices or without.
C27_MergedSlicesByLayer ==
    pc = "merge" =>
        /\ \A i \in MergeLayers :
               IF TreeHasLayer(1, i)
               THEN /\ TreeSliceAt(1, i).polygons = UNION {MergedSliceAt(m, i) : m \in DOMAIN merged}
                    /\ \A cell \in TreeSliceAt(1, i).polygons : cell[2] = i
                    /\ TreeSliceAt(1, i).num_branches = Cardinality({m \in DOMAIN merged : MergedSliceAt(m, i) # {}})
                    /\ TreeSliceAt(1, i).bottom_contacts = UNION {MergedContactAt(m, i) : m \in DOMAIN merged}
               ELSE \A m \in DOMAIN merged : MergedSliceAt(m, i) = {}
        /\ \A m \in DOMAIN merged :
               \A w \in merged[m].at.writes :
                   /\ 0 <= w.dst /\ w.dst < merged[m].at.new_size
                   /\ 0 <= w.j /\ w.j < Len(merged[m].bs.slices)
        /\ trees[1].first_layer_id # -1 => Len(trees[1].slices) > 0

\* Three branches merged: the second one reaches below the tree and meets
\* the first one on a layer, the third one has a leading empty slice and
\* reaches above the tree.
C27_MergedWitness ==
    /\ pc = "merge"
    /\ Len(merged) = 3
    /\ merged[2].first_layer_id # -1
    /\ merged[2].bs.layer_begin < merged[2].first_layer_id
    /\ merged[3].bs.num_empty > 0 /\ merged[3].at.writes # {}
    /\ merged[3].bs.layer_end > merged[3].first_layer_id + merged[2].at.new_size
    /\ \E i \in SliceLayers : TreeHasLayer(1, i) /\ TreeSliceAt(1, i).num_branches >= 2

\* ---- C28
\* Every element is listed as a parent by at most one element of the layer
\* below, and by that one once.
IsForest(mb) ==
    \A l \in DOMAIN mb : \A p \in 0 .. MaxElems :
        Cardinality({ik \in UNION {{<<i, k>> : k \in DOMAIN mb[l][i].parents} : i \in DOMAIN mb[l]} :
                        mb[l][ik[1]].parents[ik[2]] = p}) <= 1
\* The parent links (element, parent) of the forest.
ParentLinkPairs(mb) ==
    UNION {UNION {{<<<<l, i>>, <<l + 1, mb[l][i].parents[k]>>>> : k \in DOMAIN mb[l][i].parents} :
                     i \in DOMAIN mb[l]} : l \in DOMAIN mb}
\* Where a link is a consecutive pair of a path: tree, branch, position.
PairPlaces(link) ==
    {vkn \in UNION {UNION {{<<v, k, n>> : n \in 1 .. Len(visited[v].branches[k].path) - 1} :
                              k \in DOMAIN visited[v].branches} : v \in DOMAIN visited} :
        /\ visited[vkn[1]].branches[vkn[2]].path[vkn[3]] = link[1]
        /\ visited[vkn[1]].branches[vkn[2]].path[vkn[3] + 1] = link[2]}
\* The calls of visit_recursive on element e: line 742 for the start of a
\* tree, line 720 for the last element of a branch that has no tip.
VisitCalls(e) ==
    Cardinality({v \in DOMAIN visited : visited[v].start = e})
    + Cardinality({vk \in UNION {{<<v, k>> : k \in DOMAIN visited[v].branches} : v \in DOMAIN visited} :
                      LET b == visited[vk[1]].branches[vk[2]]
                      IN  ~b.has_tip /\ b.path[Len(b.path)] = e})
AllElements(mb) == UNION {{<<l, i>> : i \in DOMAIN mb[l]} : l \in DOMAIN mb}

\* C28: in a forest, while the trees are extracted no parent link is a
\* consecutive pair of two paths or twice of one, visit_recursive is called
\* at most once on an element and only on an element with parents, and every
\* path climbs one layer a step; when the loop over the start elements has
\* ended every parent link is a consecutive pair of exactly one branch, the
\* branches of the trees the gate has dropped counted in.
C28_EveryLinkInOneBranch ==
    pc \in {"extract", "slice"} /\ IsForest(move_bounds) =>
        /\ \A link \in ParentLinkPairs(move_bounds) : Cardinality(PairPlaces(link)) <= 1
        /\ \A e \in AllElements(move_bounds) :
               /\ VisitCalls(e) <= 1
               /\ VisitCalls(e) = 1 => Deref(move_bounds, e).parents # <<>> /\ Deref(move_bounds, e).marked
        /\ \A b \in AllBranches :
               \A n \in 1 .. Len(b.path) - 1 :
                   /\ b.path[n + 1][1] = b.path[n][1] + 1
                   /\ <<b.path[n], b.path[n + 1]>> \in ParentLinkPairs(move_bounds)
        /\ pc = "slice" =>
               /\ cursor = <<>>
               /\ \A link \in ParentLinkPairs(move_bounds) : Cardinality(PairPlaces(link)) = 1

\* The extraction has ended on a forest with a fork: a tree the gate has
\* dropped, a branch that ends at the fork and the call of visit_recursive
\* on the fork.
C28_Witness ==
    /\ pc = "slice"
    /\ IsForest(move_bounds)
    /\ Len(visited) > Len(trees)
    /\ \E b \in AllBranches : ~b.has_tip /\ Len(b.path) >= 2 /\ VisitCalls(b.path[Len(b.path)]) = 1
    /\ \E e \in AllElements(move_bounds) : Len(Deref(move_bounds, e).parents) >= 2

====
